---- MODULE Spec2Model ----
(***************************************************************************)
(* A model of the GBFS visualizer (entur/gbfs-visualize-poc):              *)
(*   - the geofencing-zone click handler, the point-in-polygon test and    *)
(*     the vehicle-type precedence analysis (src/visualizer.js);           *)
(*   - the zoom-driven virtual-station display, its debounce timer and     *)
(*     its requestAnimationFrame refresh (src/visualizer.js);              *)
(*   - the load of a GBFS system through GBFSLoader (src/gbfs-loader.js).  *)
(* JavaScript arrays are 0-based; sequences here are 1-based, and the      *)
(* places where an index is reported (zoneIndex, ruleIndex) subtract one.  *)
(***************************************************************************)
EXTENDS Integers, Sequences, FiniteSets, TLC

VARIABLES
    \* ---- zone engine ----
    allZones,            \* let allZones = []: <<[feature, latLngs]>>
    zonesLayer,          \* layers.zones: the set of polygons attached
    clickPoint,          \* e.latlng of the last zone click, or NoPoint
    overlappingZones,    \* the click handler's overlappingZones array
    uniqueZones,         \* the click handler's uniqueZones array
    popup,               \* what createZonePopupContent(uniqueZones) reported
    \* ---- map and virtual-station display ----
    zoom,                       \* map.getZoom()
    currentVirtualDisplayMode,  \* "null", "centroid" or "polygon"
    zoomDebounceTimeout,        \* 0 for null, else the id setTimeout returned
    timers,                     \* pending setTimeout callbacks: {[id, left]}
    rafQueue,                   \* pending requestAnimationFrame callbacks
    stationData,                \* let stationData = []: references to items
    stationItems,               \* the item objects: ref -> [station, status, marker, cachedData]
    stationsLayer,              \* layers.stations: the map elements attached
    vehicleData,                \* let vehicleData = []
    vehiclesLayer,              \* layers.vehicles: the markers attached
    errorMessage,               \* what the errorMessage element shows
    \* ---- GBFSLoader ----
    gbfsData,                   \* this.gbfsData: the discovery document held
    loadedFeeds,                \* this.loadedFeeds: feed name -> feed data
    systemInfo,                 \* this.systemInfo
    \* ---- loads in progress ----
    loads,                      \* running loadGBFSFromUrl calls, by load id
    lastLoad,                   \* how a load ended, until the next step of any load
    \* ---- history ----
    sinceZoomEnd,               \* ms since the last zoomend, capped at DebounceMs
    burst,                      \* the zoom sequence 16 -> 13 -> 16 being watched
    \* ---- functions called on their own ----
    probe,                      \* the arguments of a call and, once made, its result
    \* ---- rate limiter of GBFSLoader ----
    requestQueue,               \* this.requestQueue: the requests not yet shifted
    isProcessingQueue,          \* this.isProcessingQueue
    lastRequestTime,            \* this.lastRequestTime
    now,                        \* Date.now()
    processing,                 \* the processQueue calls suspended at an await
    requested,                  \* history: rateLimitedFetch calls made so far
    fetchStarts                 \* history: Date.now() at each fetch(url) of processQueue

zoneVars == <<allZones, zonesLayer, clickPoint, overlappingZones, uniqueZones, popup>>
clickVars == <<clickPoint, overlappingZones, uniqueZones, popup>>
zoomVars == <<zoom, zoomDebounceTimeout, timers, sinceZoomEnd, burst>>
stationVars == <<stationData, stationItems, stationsLayer>>
vehicleVars == <<vehicleData, vehiclesLayer>>
loaderVars == <<gbfsData, loadedFeeds, systemInfo>>
appVars == <<zoomVars, currentVirtualDisplayMode, rafQueue, stationVars, vehicleVars,
             errorMessage, loaderVars, loads, lastLoad>>

limiterVars == <<requestQueue, isProcessingQueue, lastRequestTime, now, processing,
                 requested, fetchStarts>>
restVars == <<probe, limiterVars>>

vars == <<zoneVars, appVars, restVars>>

--------------------------------------------------------------------------
(* Bounds of the model *)

\* features in one geofencing_zones feed
MaxFeatures == 2
\* click points are the integer points of the square 0..GridMax x 0..GridMax
GridMax == 4
\* rule count of the one oversized zone of the feed pool
ManyRules == 1002

--------------------------------------------------------------------------
(* Small helpers *)

Min(a, b) == IF a < b THEN a ELSE b
Max(a, b) == IF a > b THEN a ELSE b

\* concatenation of f(lo), ..., f(hi), split in halves
RECURSIVE ConcatRange(_, _, _)
ConcatRange(f(_), lo, hi) ==
    IF lo > hi THEN <<>>
    ELSE IF lo = hi THEN f(lo)
    ELSE LET mid == (lo + hi) \div 2
         IN  ConcatRange(f, lo, mid) \o ConcatRange(f, mid + 1, hi)

\* all sequences over S of length 0..n
SeqsUpTo(S, n) == UNION {[1..k -> S] : k \in 0..n}

--------------------------------------------------------------------------
(* GeoJSON input: the geofencing_zones feed                                *)
(* A coordinate is <<lng, lat>> (GeoJSON order); a ring is a sequence of   *)
(* coordinates, a polygon a sequence of rings (the first is the outer      *)
(* ring), a MultiPolygon a sequence of polygons.  Coordinates are          *)
(* integers: on them the floating-point expression of isPointInPolygon     *)
(* is compared exactly (see Intersect).                                    *)

SquareRing(a, b) == <<<<a, a>>, <<b, a>>, <<b, b>>, <<a, b>>, <<a, a>>>>
TriangleRing == <<<<0, 0>>, <<4, 0>>, <<4, 2>>, <<0, 0>>>>

Rule(hasIds, ids, start, end, through) ==
    [has_vehicle_type_ids |-> hasIds, vehicle_type_ids |-> ids,
     ride_start_allowed |-> start, ride_end_allowed |-> end,
     ride_through_allowed |-> through]

UniversalForbid == Rule(FALSE, <<>>, FALSE, FALSE, FALSE)
UniversalAllow  == Rule(TRUE, <<>>, TRUE, TRUE, TRUE)
ScooterRule     == Rule(TRUE, <<"scooter">>, TRUE, FALSE, TRUE)
ScooterBikeRule == Rule(TRUE, <<"scooter", "bike">>, FALSE, TRUE, TRUE)

Feature(name, type, coordinates, hasRules, rules) ==
    [geometry |-> [type |-> type, coordinates |-> coordinates],
     properties |-> [name |-> name, has_rules |-> hasRules, rules |-> rules]]

\* a square with a hole around (2,2), one universal rule
ZoneA == Feature("A", "MultiPolygon", <<<<SquareRing(0, 4), SquareRing(1, 3)>>>>,
                 TRUE, <<UniversalForbid>>)
\* a triangle (its bounding box is larger than it), one rule scoped to scooter
ZoneB == Feature("B", "MultiPolygon", <<<<TriangleRing>>>>, TRUE, <<ScooterRule>>)
\* two overlapping polygons, no name, a scoped rule before a universal one
ZoneC == Feature("", "MultiPolygon", <<<<SquareRing(0, 3)>>, <<SquareRing(1, 4)>>>>,
                 TRUE, <<ScooterBikeRule, UniversalAllow>>)
\* not a MultiPolygon: loadGeofencingZones skips it
ZoneD == Feature("D", "Polygon", <<<<SquareRing(0, 4)>>>>, TRUE, <<UniversalAllow>>)
\* no rules property; a second ring that lies outside the outer ring
ZoneE == Feature("E", "MultiPolygon", <<<<SquareRing(0, 2), SquareRing(3, 4)>>>>,
                 FALSE, <<>>)
\* a zone with ManyRules universal rules
ZoneMany == Feature("Many", "MultiPolygon", <<<<SquareRing(0, 2)>>>>,
                    TRUE, [i \in 1..ManyRules |-> UniversalAllow])
\* a small zone with one universal rule
ZoneS == Feature("S", "MultiPolygon", <<<<SquareRing(1, 3)>>>>, TRUE, <<UniversalForbid>>)

FeaturePool == {ZoneA, ZoneB, ZoneC, ZoneD, ZoneE}

\* the features arrays of the geofencing_zones feeds considered
ZoneFeeds == SeqsUpTo(FeaturePool, MaxFeatures) \cup {<<ZoneMany, ZoneS>>}

\* JSON.parse makes one object per feature: ref is the object's identity
Parsed(load, features) ==
    [i \in 1..Len(features) |->
        [ref |-> <<load, i>>, geometry |-> features[i].geometry,
         properties |-> features[i].properties]]

GridPoints == {[lat |-> a, lng |-> b] : a \in 0..GridMax, b \in 0..GridMax}
NoPoint == [lat |-> -1, lng |-> -1]

--------------------------------------------------------------------------
(* Geometry *)

\* ring.map(coord => [coord[1], coord[0]]): GeoJSON <<lng, lat>> to <<lat, lng>>
SwapRing(ring) == [k \in 1..Len(ring) |-> <<ring[k][2], ring[k][1]>>]
SwapCoordinates(coordinates) ==
    [a \in 1..Len(coordinates) |->
        [b \in 1..Len(coordinates[a]) |-> SwapRing(coordinates[a][b])]]

\* L.latLng([lat, lng])
LatLng(coord) == [lat |-> coord[1], lng |-> coord[2]]

\* One step of the loop of isPointInPolygon: does the edge from vertex j to
\* vertex i toggle `inside`?  The source compares
\*     x < (xj - xi) * (y - yi) / (yj - yi) + xi
\* only when (yi > y) !== (yj > y), hence yj # yi; multiplying by yj - yi
\* gives the same comparison without the division.
Intersect(point, polygon, i, j) ==
    LET x  == point.lat
        y  == point.lng
        xi == polygon[i].lat
        yi == polygon[i].lng
        xj == polygon[j].lat
        yj == polygon[j].lng
    IN  /\ (yi > y) # (yj > y)
        /\ IF yj - yi > 0
             THEN (x - xi) * (yj - yi) < (xj - xi) * (y - yi)
             ELSE (x - xi) * (yj - yi) > (xj - xi) * (y - yi)

\* `inside` is toggled once per intersecting edge; j runs one behind i and
\* starts at the last vertex
isPointInPolygon(point, polygon) ==
    LET n == Len(polygon)
        toggles == {i \in 1..n : Intersect(point, polygon, i, IF i = 1 THEN n ELSE i - 1)}
    IN  Cardinality(toggles) % 2 = 1

\* L.polygon(polygonCoords).getBounds(): the box around every vertex of every
\* ring of the polygon
PolygonVertices(polygonCoords) ==
    UNION {{polygonCoords[b][k] : k \in 1..Len(polygonCoords[b])} :
              b \in 1..Len(polygonCoords)}

\* bounds that exclude their own border
BoundsContain_strict(polygonCoords, point) ==
    LET vs == PolygonVertices(polygonCoords)
    IN  /\ {v \in vs : v[1] < point.lat} # {}
        /\ {v \in vs : point.lat < v[1]} # {}
        /\ {v \in vs : v[2] < point.lng} # {}
        /\ {v \in vs : point.lng < v[2]} # {}

\* testPoly.getBounds().contains(clickPoint): south-west <= point <= north-east,
\* inclusive on every side
BoundsContain(polygonCoords, point) ==
    LET vs == PolygonVertices(polygonCoords)
    IN  /\ {v \in vs : v[1] <= point.lat} # {}
        /\ {v \in vs : point.lat <= v[1]} # {}
        /\ {v \in vs : v[2] <= point.lng} # {}
        /\ {v \in vs : point.lng <= v[2]} # {}

--------------------------------------------------------------------------
(* Vehicle-type precedence *)

\* a universal rule expanded against the concrete types of the other rules
VehicleTypesOf_expanded(rule) ==
    IF rule.has_vehicle_type_ids /\ Len(rule.vehicle_type_ids) > 0
        THEN rule.vehicle_type_ids
        ELSE <<"*", "scooter", "bike">>

\* rule.vehicle_type_ids && rule.vehicle_type_ids.length > 0 ? ... : ['*']
VehicleTypesOf(rule) ==
    IF rule.has_vehicle_type_ids /\ Len(rule.vehicle_type_ids) > 0
        THEN rule.vehicle_type_ids
        ELSE <<"*">>

\* the factor of zoneIndex in precedenceScore
ZoneScoreFactor == 1000

\* a slip that swaps the two indices
PrecedenceScore_swapped(zoneIndex, ruleIndex) == ruleIndex * ZoneScoreFactor + zoneIndex

\* zoneIndex * 1000 + ruleIndex, "lower is higher precedence"
PrecedenceScore(zoneIndex, ruleIndex) == zoneIndex * ZoneScoreFactor + ruleIndex

\* feature.properties.name?.[0]?.text || `Zone ${zoneIndex + 1}`
ZoneName(feature, zoneIndex) ==
    IF feature.properties.name # "" THEN <<feature.properties.name>>
    ELSE <<"Zone", zoneIndex + 1>>

\* what one rule pushes, in order: one entry per listed vehicle type
RulePushes(feature, z, r) ==
    LET rule == feature.properties.rules[r]
        vehicleTypes == VehicleTypesOf(rule)
    IN  [t \in 1..Len(vehicleTypes) |->
            [key |-> vehicleTypes[t],
             entry |-> [zoneIndex |-> z - 1, ruleIndex |-> r - 1,
                        zoneName |-> ZoneName(feature, z - 1), rule |-> rule,
                        precedenceScore |-> PrecedenceScore(z - 1, r - 1)]]]

\* what one feature pushes; a feature without rules pushes nothing
FeaturePushes(features, z) ==
    LET feature == features[z]
        OfRule(r) == RulePushes(feature, z, r)
    IN  IF ~feature.properties.has_rules THEN <<>>
        ELSE ConcatRange(OfRule, 1, Len(feature.properties.rules))

\* every push of the two nested forEach loops, in the order it is made
AllPushes(features) ==
    LET OfFeature(z) == FeaturePushes(features, z)
    IN  ConcatRange(OfFeature, 1, Len(features))

\* rules.sort((a, b) => a.precedenceScore - b.precedenceScore): Array.prototype.sort
\* is stable, so an entry moves behind exactly the entries with a lower
\* score and the earlier entries with the same score
SortByScore(rules) ==
    LET n == Len(rules)
        score == SubSeq([i \in 1..n |-> rules[i].precedenceScore], 1, n)
        rank == SubSeq([i \in 1..n |->
                    1 + Cardinality({j \in 1..n :
                            \/ score[j] < score[i]
                            \/ score[j] = score[i] /\ j < i})], 1, n)
    IN  [k \in 1..n |-> rules[CHOOSE i \in 1..n : rank[i] = k]]

\* The Map vehicleTypeRules as the sequence of its entries [key, rules] in
\* insertion order: a key is inserted by the first push that names it.
analyzeVehicleTypePrecedence(features) ==
    LET pushes == AllPushes(features)
        n == Len(pushes)
        IsFirst(i) == \A j \in 1..(i - 1) : pushes[j].key # pushes[i].key
        firsts == SelectSeq([i \in 1..n |-> i], IsFirst)
        HasKey(key) == LET Test(p) == p.key = key IN SelectSeq(pushes, Test)
        EntriesOf(key) == LET ps == HasKey(key)
                          IN  [i \in 1..Len(ps) |-> ps[i].entry]
    IN  [m \in 1..Len(firsts) |->
            [key |-> pushes[firsts[m]].key,
             rules |-> SortByScore(EntriesOf(pushes[firsts[m]].key))]]

--------------------------------------------------------------------------
(* The zone popup *)

\* createZonePopupContent(features), as the facts the HTML states:
\*   kind      "single" (one zone: createZoneInfo only), "analysis" (the
\*             per-vehicle-type sections) or "simple" (universal rules only)
\*   sections  per Map entry: the vehicle type, rules[0] as the "highest
\*             precedence" rule, and the count of "lower precedence rule(s)"
\*   zones     the "All Overlapping Zones" list with each zone's label
createZonePopupContent(features) ==
    IF Len(features) = 1
    THEN [kind |-> "single", vehicleTypePrecedence |-> <<>>, sections |-> <<>>,
          zones |-> <<[feature |-> features[1].ref, label |-> "info"]>>]
    ELSE
      LET vehicleTypePrecedence == analyzeVehicleTypePrecedence(features)
          hasVehicleSpecificRules ==
              \E m \in 1..Len(vehicleTypePrecedence) : vehicleTypePrecedence[m].key # "*"
      IN  [kind |-> IF hasVehicleSpecificRules THEN "analysis" ELSE "simple",
           vehicleTypePrecedence |-> vehicleTypePrecedence,
           sections |->
              IF hasVehicleSpecificRules
              THEN [m \in 1..Len(vehicleTypePrecedence) |->
                      [vehicleType |-> vehicleTypePrecedence[m].key,
                       highestPrecedenceRule |-> vehicleTypePrecedence[m].rules[1],
                       lower |-> Len(vehicleTypePrecedence[m].rules) - 1]]
              ELSE <<>>,
           zones |->
              [i \in 1..Len(features) |->
                  [feature |-> features[i].ref,
                   label |-> IF hasVehicleSpecificRules THEN "See analysis above for precedence"
                             ELSE IF i = 1 THEN "Highest Precedence"
                             ELSE "Lower Precedence"]]]

NoPopup == [kind |-> "none", vehicleTypePrecedence |-> <<>>, sections |-> <<>>,
            zones |-> <<>>]

--------------------------------------------------------------------------
(* loadGeofencingZones and the polygon click handler *)

IsMultiPolygon(feature) == feature.geometry.type = "MultiPolygon"

\* allZones after loadGeofencingZones: one entry per MultiPolygon feature,
\* with its coordinates swapped to <<lat, lng>>
LoadedZones(features) ==
    LET kept == SelectSeq(features, IsMultiPolygon)
    IN  [i \in 1..Len(kept) |->
            [feature |-> kept[i],
             latLngs |-> SwapCoordinates(kept[i].geometry.coordinates)]]

\* layers.zones after loadGeofencingZones: one L.polygon per polygon of each
\* kept MultiPolygon, with polygon.feature = feature
LoadedPolygons(features) ==
    LET zones == LoadedZones(features)
    IN  UNION {{[feature |-> zones[i].feature.ref, part |-> k,
                 polygonCoords |-> zones[i].latLngs[k]] :
                    k \in 1..Len(zones[i].latLngs)} : i \in 1..Len(zones)}

\* the forEach over allZones and over zone.latLngs: zone.feature is pushed
\* once per polygon whose bounds contain the point and whose outer ring
\* (polygonCoords[0]) passes isPointInPolygon
PolygonMatches(polygonCoords, point) ==
    /\ BoundsContain(polygonCoords, point)
    /\ LET polyPoints == [k \in 1..Len(polygonCoords[1]) |-> LatLng(polygonCoords[1][k])]
       IN  isPointInPolygon(point, polyPoints)

ZonePushes(zone, point) ==
    LET OfPolygon(k) == IF PolygonMatches(zone.latLngs[k], point)
                          THEN <<zone.feature>> ELSE <<>>
    IN  ConcatRange(OfPolygon, 1, Len(zone.latLngs))

OverlappingZonesAt(zones, point) ==
    LET OfZone(i) == ZonePushes(zones[i], point)
    IN  ConcatRange(OfZone, 1, Len(zones))

\* a handler that forgets to remove the duplicates
RemoveDuplicates_none(self) == self

\* overlappingZones.filter((zone, index, self) =>
\*     index === self.findIndex(z => z === zone)): the first occurrence of
\* each object stays
RemoveDuplicates(self) ==
    LET positions == [i \in 1..Len(self) |-> i]
        IsFirst(index) == \A j \in 1..(index - 1) : self[j].ref # self[index].ref
        kept == SelectSeq(positions, IsFirst)
    IN  [i \in 1..Len(kept) |-> self[kept[i]]]

\* a click reaches the handler of a polygon of layers.zones when the pointer
\* is on that polygon; every such point lies within the polygon's bounds
CanClick(point) ==
    {polygon \in zonesLayer : BoundsContain(polygon.polygonCoords, point)} # {}


--------------------------------------------------------------------------
(* The page: map, settings and the GBFS systems a user may load *)

\* zoom levels the map is taken to (setView starts it at InitialZoom)
ZoomLevels == {3, 13, 14, 16}
InitialZoom == 3
\* performanceSettings.virtualStationZoomThreshold
virtualStationZoomThreshold == 14
\* the literal of loadStations: if (currentZoom < 14)
LoadStationsZoomThreshold == 14
\* the delay of the zoomend handler's setTimeout
DebounceMs == 150

\* the feed names loadGBFSSystem asks for, in its order
FeedOrder == <<"system_information", "geofencing_zones", "station_information",
               "station_status", "vehicle_status", "vehicle_types",
               "system_pricing_plans">>

\* The systems behind the URLs a user enters.  A system is named by its
\* discovery document; NoSystem stands for null / no document.
Systems == {"S1", "S2"}
\* systems whose station feeds hold malformed records
StationSystems == {"S1", "S3", "S4"}
NoSystem == "none"
\* the system loaded while the zoom is exercised
DisplaySystems == {"S2"}
\* the zoom levels fitBounds leads to while the loads are exercised
FitZooms == {InitialZoom}
\* the zoom levels fitBounds leads to while the station feeds are exercised:
\* one on each side of the threshold of loadStations
StationFitZooms == {InitialZoom, LoadStationsZoomThreshold}

\* gbfsData.data.feeds.map(f => f.name) of each discovery document
FeedsOf(sys) ==
    IF sys = "S1" THEN {"geofencing_zones", "station_information", "vehicle_status"}
    ELSE IF sys = "S2" THEN {"station_information", "station_status", "free_bike_status"}
    ELSE IF sys = "S3" THEN {"station_information", "vehicle_status"}
    ELSE IF sys = "S4" THEN {"station_information"}
    ELSE {}

\* A station record: has_name says that station.name[0] exists, station_area
\* that the field is present, area_has_polygon that station_area.coordinates
\* holds a polygon with a ring, has_lat_lon that lat and lon are defined.
Station(id, virtual, area, latlon) ==
    [station_id |-> id, has_name |-> TRUE, is_virtual_station |-> virtual,
     station_area |-> area, area_has_polygon |-> area, has_lat_lon |-> latlon]
\* the record without its name
Nameless(station) == [station EXCEPT !.has_name = FALSE]
\* the record with station_area.coordinates = []
EmptyArea(station) == [station EXCEPT !.area_has_polygon = FALSE]

\* station_information.data.stations of each system: an area station, a
\* point station, a station with no location at all, and a station flagged
\* virtual that has only a point
StationsOf(sys) ==
    IF sys = "S1" THEN <<Station("a", TRUE, TRUE, FALSE), Station("b", FALSE, FALSE, TRUE),
                         Station("c", FALSE, FALSE, FALSE)>>
    ELSE IF sys = "S2" THEN <<Station("v", TRUE, TRUE, TRUE), Station("w", TRUE, FALSE, TRUE)>>
    ELSE IF sys = "S3" THEN <<Station("p", FALSE, FALSE, TRUE),
                              Nameless(Station("n", FALSE, FALSE, FALSE)),
                              Station("q", FALSE, FALSE, TRUE)>>
    ELSE IF sys = "S4" THEN <<EmptyArea(Station("e", TRUE, TRUE, FALSE)),
                              Station("r", FALSE, FALSE, TRUE)>>
    ELSE <<>>

\* station_status.data.stations of each system
StatusesOf(sys) ==
    IF sys = "S2" THEN <<[station_id |-> "v", num_vehicles_available |-> 2]>>
    ELSE <<>>

\* vehicle_status.data.vehicles of each system: located is vehicle.lat && vehicle.lon
VehiclesOf(sys) ==
    IF sys \in {"S1", "S3"} THEN <<[vehicle_id |-> "x", located |-> TRUE],
                                   [vehicle_id |-> "y", located |-> FALSE]>>
    ELSE <<>>

\* geofencing_zones.data.geofencing_zones.features of each system
ZonesOf(sys) == IF sys = "S1" THEN <<ZoneB, ZoneD>> ELSE <<>>

\* maps from keys to values (JavaScript objects used as dictionaries)
EmptyMap == [x \in {} |-> x]
Restrict(f, S) == [x \in (DOMAIN f) \cap S |-> f[x]]
Put(f, k, v) == [x \in (DOMAIN f) \cup {k} |-> IF x = k THEN v ELSE f[x]]
Range(s) == {s[i] : i \in DOMAIN s}

\* undefined status, no marker, no _cachedData
NoStatus == [station_id |-> "", num_vehicles_available |-> 0]
NoElement == [of |-> <<0, 0>>, form |-> "none"]
NoCache == [popupContent |-> <<>>, obj |-> 0]

NoLoad == [outcome |-> "none", sys |-> NoSystem, feedNames |-> <<>>,
           results |-> EmptyMap, errors |-> <<>>, changed |-> FALSE]
NoBurst == [step |-> 0, calls |-> 0, modeBefore |-> "null", refreshZoom |-> 0]

\* no function has been called on its own
NoProbe == [fn |-> "none"]

\* this.minRequestInterval
minRequestInterval == 500
\* Date.now() when the page's scripts have run
StartTime == 1000

\* the fields the constructor of GBFSLoader gives the rate limiter
LimiterStart ==
    /\ requestQueue = <<>>
    /\ isProcessingQueue = FALSE
    /\ lastRequestTime = 0
    /\ now = StartTime
    /\ processing = {}
    /\ requested = 0
    /\ fetchStarts = <<>>

RestStart == probe = NoProbe /\ LimiterStart

\* the state once the page's scripts have run
AppStart ==
    /\ zoom = InitialZoom
    /\ currentVirtualDisplayMode = "null"
    /\ zoomDebounceTimeout = 0
    /\ timers = {}
    /\ rafQueue = <<>>
    /\ stationData = <<>>
    /\ stationItems = EmptyMap
    /\ stationsLayer = {}
    /\ vehicleData = <<>>
    /\ vehiclesLayer = {}
    /\ errorMessage = "none"
    /\ gbfsData = NoSystem
    /\ loadedFeeds = EmptyMap
    /\ systemInfo = NoSystem
    /\ loads = EmptyMap
    /\ lastLoad = NoLoad
    /\ sinceZoomEnd = DebounceMs
    /\ burst = NoBurst

--------------------------------------------------------------------------
(* The zone engine on its own *)

\* an array that outlives the handler: what the previous click pushed is still in it
NewArray_kept == overlappingZones

\* const overlappingZones = []
NewArray == <<>>

\* the body of polygon.on('click', ...)
ClickHandler(point) ==
    /\ CanClick(point)
    /\ clickPoint' = point
    /\ overlappingZones' = NewArray \o OverlappingZonesAt(allZones, point)
    /\ uniqueZones' = RemoveDuplicates(overlappingZones')
    /\ popup' = createZonePopupContent(uniqueZones')
    /\ UNCHANGED <<allZones, zonesLayer>>

\* polygon.on('click', ...)
ZoneClick(point) ==
    /\ ClickHandler(point)
    /\ UNCHANGED <<appVars, restVars>>

\* The zone engine alone: a geofencing_zones feed has been loaded, and the
\* user clicks on zones.
ZoneInit ==
    /\ \E features \in ZoneFeeds :
          /\ allZones = LoadedZones(Parsed(0, features))
          /\ zonesLayer = LoadedPolygons(Parsed(0, features))
    /\ clickPoint = NoPoint
    /\ overlappingZones = <<>>
    /\ uniqueZones = <<>>
    /\ popup = NoPopup
    /\ AppStart
    /\ RestStart

ZoneNext == \E point \in GridPoints : ZoneClick(point)

SpecZones == ZoneInit /\ [][ZoneNext]_vars

--------------------------------------------------------------------------
(* Claims about the zone engine (checked under SpecZones) *)

Clicked == clickPoint # NoPoint
Refs(features) == {features[i].ref : i \in 1..Len(features)}
\* the lists of analyzeVehicleTypePrecedence(uniqueZones) of the last click
Lists == popup.vehicleTypePrecedence

\* entry a is not behind entry b in "earlier wins" order
NotBehind(a, b) ==
    \/ a.zoneIndex < b.zoneIndex
    \/ a.zoneIndex = b.zoneIndex /\ a.ruleIndex <= b.ruleIndex

PrecedenceOrdered(rules) ==
    \A a \in 1..Len(rules) : \A b \in (a + 1)..Len(rules) : NotBehind(rules[a], rules[b])

\* the <<zoneIndex, ruleIndex>> of every rule of the zones that applies to key
RulesFor(features, key) ==
    {<<z - 1, r - 1>> : <<z, r>> \in
        {<<z, r>> \in (1..Len(features)) \X (1..(ManyRules + 1)) :
            /\ features[z].properties.has_rules
            /\ r <= Len(features[z].properties.rules)
            /\ \E t \in 1..Len(VehicleTypesOf(features[z].properties.rules[r])) :
                  VehicleTypesOf(features[z].properties.rules[r])[t] = key}}

FirstIsEarliest(features, list) ==
    \A zr \in RulesFor(features, list.key) :
        \/ list.rules[1].zoneIndex < zr[1]
        \/ list.rules[1].zoneIndex = zr[1] /\ list.rules[1].ruleIndex <= zr[2]

EarlierWins ==
    \A m \in 1..Len(Lists) :
        /\ PrecedenceOrdered(Lists[m].rules)
        /\ FirstIsEarliest(uniqueZones, Lists[m])

\* C3 as stated: for every input, each key's list is in "earlier wins" order
\* (every rule of an earlier zone before every rule of a later zone, rules of
\* one zone in their order) and its first element is the earliest rule of the
\* earliest zone that has a rule for the key.
C3_EarlierWinsAlways == Clicked => EarlierWins

\* C3 amended: the same, for inputs in which no zone has more than 1000 rules
\* (every ruleIndex is below the factor 1000 of zoneIndex in the score).
C3_EarlierWinsUpTo1000Rules ==
    (Clicked /\ \A z \in 1..Len(uniqueZones) :
                    Len(uniqueZones[z].properties.rules) <= ZoneScoreFactor)
        => EarlierWins

\* C3 witness: two zones, both with a universal rule; the wildcard list starts
\* with the rule of the first zone and continues with the rule of the second.
C3_Witness ==
    /\ Clicked
    /\ \E m \in 1..Len(Lists) :
          /\ Lists[m].key = "*"
          /\ Len(Lists[m].rules) = 2
          /\ Lists[m].rules[1].zoneIndex = 0
          /\ Lists[m].rules[2].zoneIndex = 1

ScoresOf(key) ==
    UNION {{Lists[m].rules[i].precedenceScore : i \in 1..Len(Lists[m].rules)} :
              m \in {m \in 1..Len(Lists) : Lists[m].key = key}}

\* C4 as stated: the rule the popup reports as the highest-precedence rule of a
\* concrete vehicle type has the lowest precedence score among the rules under
\* that type's key and the rules under the wildcard key.
C4_WinnerIsLowestOfTypeAndWildcard ==
    \A s \in 1..Len(popup.sections) :
        popup.sections[s].vehicleType # "*" =>
            \A score \in ScoresOf(popup.sections[s].vehicleType) \cup ScoresOf("*") :
                popup.sections[s].highestPrecedenceRule.precedenceScore <= score

PositionIn(zones, ref) == CHOOSE i \in 1..Len(zones) : zones[i].feature.ref = ref

\* C5: the click handler's list of overlapping zones holds each zone at most
\* once, holds exactly the zones that were pushed, and lists them in the
\* order of allZones.
C5_UniqueInLoadOrder ==
    Clicked =>
        /\ \A i \in 1..Len(uniqueZones) : \A j \in 1..Len(uniqueZones) :
              uniqueZones[i].ref = uniqueZones[j].ref => i = j
        /\ Refs(uniqueZones) = Refs(overlappingZones)
        /\ \A i \in 1..Len(uniqueZones) : \A j \in (i + 1)..Len(uniqueZones) :
              PositionIn(allZones, uniqueZones[i].ref) < PositionIn(allZones, uniqueZones[j].ref)

\* C5 witness: a zone was pushed twice (two of its polygons contain the point)
\* and another zone was pushed too.
C5_Witness ==
    /\ Clicked
    /\ Len(overlappingZones) > Len(uniqueZones)
    /\ Len(uniqueZones) >= 2

OuterRingContains(polygonCoords, point) ==
    isPointInPolygon(point, [k \in 1..Len(polygonCoords[1]) |-> LatLng(polygonCoords[1][k])])

--------------------------------------------------------------------------
(* Bounds of the application model *)

\* loadGBFSFromUrl calls running at once while the loads are exercised
MaxInFlight == 2
\* loadGBFSFromUrl calls running at once while the zoom is exercised
MaxInFlightZooming == 1
\* requestAnimationFrame callbacks pending at once
MaxRaf == 1
\* time passes in steps of TickMs
TickMs == 75
\* refresh calls counted within one watched zoom sequence
MaxCalls == 3
\* _cachedData objects counted per station item
MaxBuilds == 2
\* loadStations calls a pending animation-frame callback may wait through
MaxAge == 1
\* refreshes counted per station item
MaxRefreshes == 2

--------------------------------------------------------------------------
(* Object references *)

\* the smallest positive number outside used: ids of timers and of loads
\* only need to differ from those still referred to
SmallestUnused(used) ==
    CHOOSE n \in 1..(Cardinality(used) + 1) :
        n \notin used /\ \A k \in 1..(n - 1) : k \in used

\* A station item is referred to by <<age, index>>: age counts the
\* loadStations calls since the one that created it (0 for the items of the
\* current stationData), index is its station's place in the feed.
Older(ref) == <<ref[1] + 1, ref[2]>>

\* the station items the pending animation-frame callbacks hold on to
QueuedRefs(queue) == UNION {Range(queue[i].items) : i \in DOMAIN queue}

\* the pending callbacks and the items they hold once loadStations has
\* replaced stationData
OlderQueue(queue) ==
    [i \in DOMAIN queue |->
        [queue[i] EXCEPT !.items = [k \in DOMAIN @ |-> Older(@[k])]]]
OlderItems(items) ==
    [r \in {Older(q) : q \in DOMAIN items} |->
        LET q == <<r[1] - 1, r[2]>>
        IN  [items[q] EXCEPT !.marker = [@ EXCEPT !.of = Older(@)]]]

--------------------------------------------------------------------------
(* The zoomend handler, its debounce timer and the display mode *)

\* a clearTimeout that cancels nothing
ClearTimeout_none(pending, id) == pending

\* clearTimeout(id)
ClearTimeout(pending, id) == {t \in pending : t.id # id}

\* the zoom sequence 16 -> 13 -> 16 as the handler sees it: step 1 once the
\* zoom has gone from 16 to 13, step 2 once it is back at 16 less than
\* DebounceMs later; calls counts the refreshVirtualStationDisplay calls
\* made since step 1 and modeBefore is the display mode at step 1
BurstAfterZoomEnd(z) ==
    IF zoom = 16 /\ z = 13
      THEN [step |-> 1, calls |-> 0, modeBefore |-> currentVirtualDisplayMode,
            refreshZoom |-> 0]
    ELSE IF burst.step = 1 /\ zoom = 13 /\ z = 16 /\ sinceZoomEnd < DebounceMs
      THEN [burst EXCEPT !.step = 2]
    ELSE NoBurst

\* map.on('zoomend', ...) run for a zoom that ended at z: the pending
\* timeout is cleared and a new one is set
ZoomEndHandler(z) ==
    LET cleared == IF zoomDebounceTimeout # 0
                     THEN ClearTimeout(timers, zoomDebounceTimeout)
                     ELSE timers
        id == SmallestUnused({t.id : t \in cleared} \cup {zoomDebounceTimeout})
    IN  /\ zoom' = z
        /\ timers' = cleared \cup {[id |-> id, left |-> DebounceMs]}
        /\ zoomDebounceTimeout' = id
        /\ sinceZoomEnd' = 0
        /\ burst' = BurstAfterZoomEnd(z)

\* Leaflet fires zoomend when a zoom gesture ends at another level
ZoomEnd(z) ==
    /\ z # zoom
    /\ ZoomEndHandler(z)
    /\ UNCHANGED <<restVars, zoneVars, currentVirtualDisplayMode, rafQueue, stationVars,
                   vehicleVars, errorMessage, loaderVars, loads, lastLoad>>

\* time passes while a timer is still running
Tick ==
    /\ {t \in timers : t.left > 0} # {}
    /\ timers' = {[t EXCEPT !.left = Max(0, @ - TickMs)] : t \in timers}
    /\ sinceZoomEnd' = Min(DebounceMs, sinceZoomEnd + TickMs)
    /\ UNCHANGED <<restVars, zoneVars, zoom, zoomDebounceTimeout, burst,
                   currentVirtualDisplayMode, rafQueue, stationVars, vehicleVars,
                   errorMessage, loaderVars, loads, lastLoad>>

\* currentZoom < performanceSettings.virtualStationZoomThreshold ? 'centroid' : 'polygon'
NewDisplayMode(currentZoom) ==
    IF currentZoom < virtualStationZoomThreshold THEN "centroid" ELSE "polygon"

\* a handler that refreshes on every timeout
ModeChanged_always(current, new) == TRUE

\* if (currentVirtualDisplayMode !== newDisplayMode)
ModeChanged(current, new) == current # new

\* a filter that looks at the flag only
IsVirtualWithArea_flag(station) == station.is_virtual_station

\* item.station.is_virtual_station && item.station.station_area
IsVirtualWithArea(station) == station.is_virtual_station /\ station.station_area

\* refreshVirtualStationDisplay up to its requestAnimationFrame call: the
\* callback captures the filtered items and the zoom of this moment
refreshVirtualStationDisplay(queue) ==
    LET Virtual(ref) == IsVirtualWithArea(stationItems[ref].station)
        virtualStationsToProcess == SelectSeq(stationData, Virtual)
    IN  IF Len(stationData) = 0 THEN queue
        ELSE IF Len(virtualStationsToProcess) = 0 THEN queue
        ELSE Append(queue, [items |-> virtualStationsToProcess, currentZoom |-> zoom])

\* the callback given to setTimeout, run when its delay has passed
TimerFire(t) ==
    /\ t.left = 0
    /\ timers' = timers \ {t}
    /\ LET newDisplayMode == NewDisplayMode(zoom)
           switch == ModeChanged(currentVirtualDisplayMode, newDisplayMode)
       IN  /\ currentVirtualDisplayMode' =
                 IF switch THEN newDisplayMode ELSE currentVirtualDisplayMode
           /\ rafQueue' = IF switch THEN refreshVirtualStationDisplay(rafQueue)
                                    ELSE rafQueue
           /\ burst' = IF switch /\ burst.step > 0
                         THEN [burst EXCEPT !.calls = Min(@ + 1, MaxCalls),
                                            !.refreshZoom = zoom]
                         ELSE burst
    /\ Len(rafQueue') <= MaxRaf
    /\ UNCHANGED <<restVars, zoneVars, zoom, zoomDebounceTimeout, sinceZoomEnd, stationVars,
                   vehicleVars, errorMessage, loaderVars, loads, lastLoad>>

--------------------------------------------------------------------------
(* The animation-frame callback of refreshVirtualStationDisplay *)

\* createVirtualStationPopup(station, status): the id and the availability
\* it prints
createVirtualStationPopup(station, status) ==
    <<station.station_id,
      IF status # NoStatus THEN status.num_vehicles_available ELSE -1>>

\* calculatePolygonCentroid(station.station_area.coordinates) throws a
\* TypeError at coordinates[0][0] when coordinates is empty
CentroidThrows(station) == ~station.area_has_polygon

\* building _cachedData throws: calculatePolygonCentroid finds no polygon
BuildThrows(item) == item.cachedData = NoCache /\ CentroidThrows(item.station)

\* a new _cachedData object for the item
BuildCachedData(item) ==
    [popupContent |-> createVirtualStationPopup(item.station, item.status),
     obj |-> Min(item.cachedData.obj + 1, MaxBuilds)]

\* a callback that builds the derived data on every refresh
CachedDataFor_rebuilt(item) == BuildCachedData(item)

\* if (!stationItem._cachedData) { stationItem._cachedData = {...} }
CachedDataFor(item) ==
    IF item.cachedData # NoCache THEN item.cachedData ELSE BuildCachedData(item)

\* one iteration of the callback's forEach, without the layer update;
\* refreshes is history: the number of iterations run on the item
Refreshed(item, ref, currentZoom) ==
    LET newMapElement ==
            [of |-> ref,
             form |-> IF currentZoom < virtualStationZoomThreshold
                        THEN "centroid" ELSE "polygon"]
    IN  [item EXCEPT !.cachedData = CachedDataFor(item), !.marker = newMapElement,
                     !.refreshes = Min(@ + 1, MaxRefreshes)]

\* the browser runs the oldest pending animation-frame callback
RafRun ==
    /\ rafQueue # <<>>
    /\ LET callback == Head(rafQueue)
           \* the forEach ends at the first item whose _cachedData cannot be
           \* built; that item's element has been removed by then
           throwing == {k \in DOMAIN callback.items :
                           BuildThrows(stationItems[callback.items[k]])}
           refs == {callback.items[k] : k \in {i \in DOMAIN callback.items :
                                                  \A j \in throwing : i < j}}
           removed == {stationItems[callback.items[k]].marker :
                          k \in {i \in DOMAIN callback.items :
                                    \A j \in throwing : i <= j}}
           after == [r \in DOMAIN stationItems |->
                        IF r \in refs
                          THEN Refreshed(stationItems[r], r, callback.currentZoom)
                          ELSE stationItems[r]]
       IN  /\ stationsLayer' = (stationsLayer \ removed) \cup {after[r].marker : r \in refs}
           /\ stationItems' = Restrict(after, Range(stationData)
                                                \cup QueuedRefs(Tail(rafQueue)))
           /\ rafQueue' = Tail(rafQueue)
    /\ UNCHANGED <<restVars, zoneVars, zoomVars, currentVirtualDisplayMode, stationData,
                   vehicleVars, errorMessage, loaderVars, loads, lastLoad>>

--------------------------------------------------------------------------
(* loadStations and loadVehicles *)

\* statusMap[station.station_id]: the last status of the feed with that id
StatusFor(station, statusSys) ==
    LET statuses == StatusesOf(statusSys)
        matching == {i \in DOMAIN statuses : statuses[i].station_id = station.station_id}
    IN  IF matching = {} THEN NoStatus
        ELSE statuses[CHOOSE i \in matching : \A j \in matching : j <= i]

\* the map element loadStations creates for a station, NoElement when the
\* station is skipped
MapElementFor(station, ref, currentZoom) ==
    IF station.is_virtual_station /\ station.station_area
      THEN [of |-> ref,
            form |-> IF currentZoom < LoadStationsZoomThreshold
                       THEN "centroid" ELSE "polygon"]
    ELSE IF station.has_lat_lon
      THEN [of |-> ref, form |-> "point"]
    ELSE NoElement

\* the forEach callback of loadStations throws for the station: at
\* station.name[0].text when it has no name, at calculatePolygonCentroid when
\* its area is to be shown as a centroid and has no polygon
StationThrows(station, currentZoom) ==
    \/ ~station.has_name
    \/ /\ station.is_virtual_station /\ station.station_area
       /\ currentZoom < LoadStationsZoomThreshold
       /\ CentroidThrows(station)

\* loadStations(stationInfo, stationStatus): the new stationData, its item
\* objects and the content of layers.stations.  An exception of the forEach
\* callback ends the loop and is thrown again by the catch: threw tells so,
\* and the stations before it have been rendered.
loadStations(infoSys, statusSys, currentZoom) ==
    LET stations == StationsOf(infoSys)
        throwing == {i \in 1..Len(stations) : StationThrows(stations[i], currentZoom)}
        reached == {i \in 1..Len(stations) : \A j \in throwing : i < j}
        Kept(i) == /\ i \in reached
                   /\ MapElementFor(stations[i], <<0, i>>, currentZoom) # NoElement
        kept == SelectSeq([i \in 1..Len(stations) |-> i], Kept)
        refs == {<<0, kept[k]>> : k \in 1..Len(kept)}
        items == [r \in refs |->
                    [station |-> stations[r[2]],
                     status |-> StatusFor(stations[r[2]], statusSys),
                     marker |-> MapElementFor(stations[r[2]], r, currentZoom),
                     cachedData |-> NoCache,
                     refreshes |-> 0]]
    IN  [stationData |-> [k \in 1..Len(kept) |-> <<0, kept[k]>>],
         items |-> items,
         layer |-> {items[r].marker : r \in refs},
         threw |-> throwing # {}]

\* loadVehicles(data): a marker per vehicle with lat and lon
loadVehicles(sys) ==
    LET vehicles == VehiclesOf(sys)
        Located(i) == vehicles[i].located
        kept == SelectSeq([i \in 1..Len(vehicles) |-> i], Located)
    IN  [k \in 1..Len(kept) |-> [vehicle |-> vehicles[kept[k]], marker |-> kept[k]]]

--------------------------------------------------------------------------
(* Loading a system: loadGBFSFromUrl, GBFSLoader and loadGBFSSystem *)

\* gbfsLoader.getAvailableFeeds()
getAvailableFeeds(doc) == FeedsOf(doc)

\* feedsToLoad: the essential feeds the discovery document lists
FeedsToLoad(doc) ==
    LET Available(feed) == feed \in getAvailableFeeds(doc)
    IN  SelectSeq(FeedOrder, Available)

FeedError(feedName, message) == [feed |-> feedName, error |-> message]

\* The for loop of loadFeeds from position k up to the first loadFeed that
\* reaches its fetch.  loadFeed throws at once when no discovery document is
\* held or the document held does not list the feed; loadFeeds records the
\* error and goes on.
RECURSIVE RequestFrom(_, _, _, _)
RequestFrom(feedNames, k, errors, doc) ==
    IF k > Len(feedNames) THEN [next |-> k, errors |-> errors]
    ELSE IF doc = NoSystem
      THEN RequestFrom(feedNames, k + 1,
                       Append(errors, FeedError(feedNames[k], "No GBFS discovery file loaded")),
                       doc)
    ELSE IF feedNames[k] \notin FeedsOf(doc)
      THEN RequestFrom(feedNames, k + 1,
                       Append(errors, FeedError(feedNames[k], "not found in GBFS discovery file")),
                       doc)
    ELSE [next |-> k, errors |-> errors]

renderVars == <<allZones, zonesLayer, stationData, stationsLayer, vehicleData, vehiclesLayer>>

\* the user submits a URL: loadGBFSFromUrl up to the fetch of loadFromPath
LoadFromUrl ==
    /\ loads' = Put(loads, SmallestUnused(DOMAIN loads),
                    [sys |-> NoSystem, stage |-> "discovery", feedNames |-> <<>>,
                     next |-> 0, request |-> NoSystem, results |-> EmptyMap,
                     errors |-> <<>>, changed |-> FALSE])
    /\ lastLoad' = NoLoad
    /\ UNCHANGED <<restVars, zoneVars, zoomVars, currentVirtualDisplayMode, rafQueue, stationVars,
                   vehicleVars, errorMessage, loaderVars>>

\* the discovery fetch fails, answers with an error status or with a
\* document that has no data.feeds: loadFromPath throws and loadGBFSFromUrl
\* shows the error
DiscoveryFails(l) ==
    /\ loads[l].stage = "discovery"
    /\ errorMessage' = "Error loading from URL"
    /\ loads' = Restrict(loads, DOMAIN loads \ {l})
    /\ lastLoad' = [NoLoad EXCEPT !.outcome = "discovery failed",
                                  !.changed = loads[l].changed]
    /\ UNCHANGED <<restVars, zoneVars, zoomVars, currentVirtualDisplayMode, rafQueue, stationVars,
                   vehicleVars, loaderVars>>

\* The discovery document of the system behind the URL arrives.  loadFromPath
\* hands it to loadGBFS,
\* loadGBFSFromUrl calls loadGBFSSystem, which clears every layer and data
\* array, calls loadGBFS again and enters loadFeeds up to its first fetch.
DiscoveryLoaded(l, sys) ==
    LET ld == loads[l]
        feedsToLoad == FeedsToLoad(sys)
        first == RequestFrom(feedsToLoad, 1, <<>>, sys)
        changed == ld.changed \/ renderVars' # renderVars
    IN  /\ ld.stage = "discovery"
        /\ gbfsData' = sys
        /\ loadedFeeds' = EmptyMap
        /\ systemInfo' = NoSystem
        /\ allZones' = <<>>
        /\ zonesLayer' = {}
        /\ stationData' = <<>>
        /\ stationsLayer' = {}
        /\ stationItems' = Restrict(stationItems, QueuedRefs(rafQueue))
        /\ vehicleData' = <<>>
        /\ vehiclesLayer' = {}
        /\ errorMessage' = "none"
        /\ IF first.next <= Len(feedsToLoad)
             THEN /\ loads' = [loads EXCEPT ![l] =
                                 [ld EXCEPT !.sys = sys, !.stage = "feeds",
                                            !.feedNames = feedsToLoad,
                                            !.next = first.next, !.request = sys,
                                            !.errors = first.errors, !.changed = changed]]
                  /\ lastLoad' = NoLoad
             ELSE /\ loads' = Restrict(loads, DOMAIN loads \ {l})
                  /\ lastLoad' = [outcome |-> "finished", sys |-> sys,
                                  feedNames |-> feedsToLoad,
                                  results |-> EmptyMap, errors |-> first.errors,
                                  changed |-> changed]
        /\ UNCHANGED <<restVars, clickVars, zoomVars, currentVirtualDisplayMode, rafQueue>>

\* loadGBFSSystem from "Process loaded data" to its end, for a loadFeeds
\* that returned {results, errors}; fit is the zoom fitBounds leads to
ProcessResults(l, results, errors, fit) ==
    LET ld == loads[l]
        Has(feed) == feed \in DOMAIN results
        features == Parsed(0, ZonesOf(results["geofencing_zones"]))
        stations == loadStations(results["station_information"],
                                 IF Has("station_status") THEN results["station_status"]
                                                          ELSE NoSystem,
                                 zoom)
        vehicles == loadVehicles(results["vehicle_status"])
        hasLocalFileErrors ==
            {i \in DOMAIN errors : errors[i].error = "Failed to fetch"} # {}
        \* loadStations threw: the catch of loadGBFSSystem shows the error
        \* and the rest of the try block is not run
        caught == Has("station_information") /\ stations.threw
    IN  /\ Has("station_information") =>
                \A r \in QueuedRefs(rafQueue) : r[1] < MaxAge
        /\ allZones' = IF Has("geofencing_zones") THEN LoadedZones(features) ELSE allZones
        /\ zonesLayer' = IF Has("geofencing_zones") THEN LoadedPolygons(features)
                                                    ELSE zonesLayer
        /\ stationData' = IF Has("station_information") THEN stations.stationData
                                                        ELSE stationData
        /\ stationsLayer' = IF Has("station_information") THEN stations.layer
                                                          ELSE stationsLayer
        /\ stationItems' =
              IF Has("station_information")
                THEN LET queued == OlderItems(Restrict(stationItems, QueuedRefs(rafQueue)))
                     IN  [r \in DOMAIN queued \cup DOMAIN stations.items |->
                            IF r \in DOMAIN stations.items THEN stations.items[r]
                                                           ELSE queued[r]]
                ELSE stationItems
        /\ vehicleData' = IF Has("vehicle_status") /\ ~caught THEN vehicles ELSE vehicleData
        /\ vehiclesLayer' = IF Has("vehicle_status") /\ ~caught
                              THEN {vehicles[k].marker : k \in DOMAIN vehicles}
                              ELSE vehiclesLayer
        /\ IF /\ ~caught
              /\ (zonesLayer' # {} \/ stationsLayer' # {} \/ vehiclesLayer' # {})
              /\ fit # zoom
             THEN ZoomEndHandler(fit)
             ELSE UNCHANGED zoomVars
        /\ errorMessage' = IF caught THEN "Error"
                           ELSE IF hasLocalFileErrors THEN "Local File Limitation"
                           ELSE errorMessage
        /\ rafQueue' = IF Has("station_information") THEN OlderQueue(rafQueue) ELSE rafQueue
        /\ loads' = Restrict(loads, DOMAIN loads \ {l})
        /\ lastLoad' = [outcome |-> "finished", sys |-> ld.sys,
                        feedNames |-> ld.feedNames,
                        results |-> results, errors |-> errors,
                        changed |-> ld.changed \/ renderVars' # renderVars]

\* what the catch of loadFeeds does with a failed loadFeed
CaughtErrors_rethrown(errors, feedName) == errors

\* errors.push({ feed: feedName, error: error.message })
CaughtErrors(errors, feedName) == Append(errors, FeedError(feedName, "Failed to fetch"))

\* The fetch of the feed a load is waiting for settles: ok when the feed
\* arrived and parsed, otherwise loadFeed throws.  loadFeeds goes on to its
\* next fetch, or returns and loadGBFSSystem processes the results.
FeedSettles(l, ok, fit) ==
    LET ld == loads[l]
        feedName == ld.feedNames[ld.next]
        results == IF ok THEN Put(ld.results, feedName, ld.request) ELSE ld.results
        errors == IF ok THEN ld.errors ELSE CaughtErrors(ld.errors, feedName)
        rest == RequestFrom(ld.feedNames, ld.next + 1, errors, gbfsData)
    IN  /\ ld.stage = "feeds"
        /\ loadedFeeds' = IF ok THEN Put(loadedFeeds, feedName, ld.request) ELSE loadedFeeds
        /\ systemInfo' = IF ok /\ feedName = "system_information" THEN ld.request
                                                                  ELSE systemInfo
        /\ UNCHANGED <<restVars, gbfsData, clickVars, currentVirtualDisplayMode>>
        /\ IF rest.next <= Len(ld.feedNames)
             THEN /\ loads' = [loads EXCEPT ![l] =
                                 [ld EXCEPT !.next = rest.next, !.request = gbfsData,
                                            !.results = results, !.errors = rest.errors]]
                  /\ lastLoad' = NoLoad
                  /\ UNCHANGED <<allZones, zonesLayer, zoomVars, rafQueue, stationVars,
                                 vehicleVars, errorMessage>>
             ELSE ProcessResults(l, results, rest.errors, fit)

--------------------------------------------------------------------------
(* The application *)

Init ==
    /\ allZones = <<>>
    /\ zonesLayer = {}
    /\ clickPoint = NoPoint
    /\ overlappingZones = <<>>
    /\ uniqueZones = <<>>
    /\ popup = NoPopup
    /\ AppStart
    /\ RestStart

\* The display at work: the user zooms and loads, again and again, a system
\* that publishes stations.
Next ==
    \/ \E z \in ZoomLevels : ZoomEnd(z)
    \/ Tick
    \/ \E t \in timers : TimerFire(t)
    \/ RafRun
    \/ Cardinality(DOMAIN loads) < MaxInFlightZooming /\ LoadFromUrl
    \/ \E l \in DOMAIN loads : DiscoveryFails(l)
    \/ \E l \in DOMAIN loads, sys \in DisplaySystems : DiscoveryLoaded(l, sys)
    \/ \E l \in DOMAIN loads, ok \in BOOLEAN, fit \in ZoomLevels : FeedSettles(l, ok, fit)

Spec == Init /\ [][Next]_vars

\* Loads at work: the user loads one system after another, and every
\* fitBounds finds the map at the zoom level it asks for.
NextLoad ==
    \/ Cardinality(DOMAIN loads) < MaxInFlight /\ LoadFromUrl
    \/ \E l \in DOMAIN loads : DiscoveryFails(l)
    \/ \E l \in DOMAIN loads, sys \in Systems : DiscoveryLoaded(l, sys)
    \/ \E l \in DOMAIN loads, ok \in BOOLEAN, fit \in FitZooms : FeedSettles(l, ok, fit)

SpecLoad == Init /\ [][NextLoad]_vars

\* Station feeds at work: the user loads, one after another, systems whose
\* station_information holds records without a location, a name or an area
\* polygon.
NextStations ==
    \/ DOMAIN loads = {} /\ LoadFromUrl
    \/ \E l \in DOMAIN loads : DiscoveryFails(l)
    \/ \E l \in DOMAIN loads, sys \in StationSystems : DiscoveryLoaded(l, sys)
    \/ \E l \in DOMAIN loads, ok \in BOOLEAN, fit \in StationFitZooms :
          FeedSettles(l, ok, fit)

SpecStations == Init /\ [][NextStations]_vars

--------------------------------------------------------------------------
(* Claims about the virtual-station display (checked under Spec) *)

\* no debounce timer pending and no animation-frame callback outstanding
Quiescent == timers = {} /\ rafQueue = <<>>

\* the items of stationData that are virtual stations with an area
VirtualItems == {r \in Range(stationData) : IsVirtualWithArea(stationItems[r].station)}

\* the form the threshold asks for at a zoom level
FormAt(z) == IF z < 14 THEN "centroid" ELSE "polygon"

\* C1: whenever no debounce timer is pending and no refresh callback is
\* outstanding, every virtual station of stationData is on the map as a
\* centroid marker if the zoom is below 14 and as a polygon otherwise.
C1_QuiescentDisplayMatchesZoom ==
    Quiescent =>
        \A r \in VirtualItems :
            /\ stationItems[r].marker \in stationsLayer
            /\ stationItems[r].marker.form = FormAt(zoom)

\* the watched zoom sequence is complete and its timers have run
BurstSettled == burst.step = 2 /\ timers = {}

\* C2 as stated: when the zoom goes 16 -> 13 -> 16 within one debounce
\* window, exactly one refreshVirtualStationDisplay call results, for
\* polygon mode.
C2_ExactlyOneRefresh ==
    BurstSettled => burst.calls = 1 /\ currentVirtualDisplayMode = "polygon"

\* C2 amended: the sequence results in no call before its last timer runs
\* and then in one call, made at zoom 16, unless the display mode was
\* already polygon before the sequence, when it results in none; the mode
\* is polygon afterwards.
C2_OneRefreshUnlessAlreadyPolygon ==
    /\ (burst.step = 2 /\ timers # {}) => burst.calls = 0
    /\ BurstSettled =>
          /\ burst.calls = IF burst.modeBefore = "polygon" THEN 0 ELSE 1
          /\ burst.calls = 1 => burst.refreshZoom = 16
          /\ currentVirtualDisplayMode = "polygon"

C2_Witness ==
    /\ BurstSettled
    /\ burst.calls = 1
    /\ burst.modeBefore = "centroid"
    /\ VirtualItems # {}

\* C7: every map element of the stations layer belongs to an item of the
\* current stationData: no rendering step has put an element of a replaced
\* station record on the map.
C7_LayerHoldsCurrentStationsOnly ==
    \A e \in stationsLayer : e.of \in Range(stationData)

\* a step in which loadStations has replaced stationData
StationsReloaded ==
    /\ Cardinality(DOMAIN loads') < Cardinality(DOMAIN loads)
    /\ lastLoad'.outcome = "finished"
    /\ "station_information" \in DOMAIN lastLoad'.results

\* the reference an item of this state has in the next state
NextRef(r) == IF StationsReloaded THEN Older(r) ELSE r

\* C8: the _cachedData object of a station item, once built, stays the same
\* object with the same content through every later refresh, and the items
\* loadStations creates have no _cachedData.
C8_CachedDataBuiltOnce ==
    [][/\ \A r \in DOMAIN stationItems :
             (stationItems[r].cachedData # NoCache /\ NextRef(r) \in DOMAIN stationItems')
                 => stationItems'[NextRef(r)].cachedData = stationItems[r].cachedData
       /\ StationsReloaded =>
             \A r \in Range(stationData') : stationItems'[r].cachedData = NoCache]_vars

\* an item refreshed more than once that holds the object of its first refresh
C8_Witness ==
    \E r \in VirtualItems :
        /\ stationItems[r].refreshes >= 2
        /\ stationItems[r].cachedData.obj = 1
        /\ stationItems[r].cachedData.popupContent =
               createVirtualStationPopup(stationItems[r].station, stationItems[r].status)

--------------------------------------------------------------------------
(* Claims about loading a system (checked under SpecLoad) *)

\* the load that just ended got no feed at all
NothingLoaded ==
    /\ lastLoad.outcome = "finished"
    /\ DOMAIN lastLoad.results = {}
    /\ lastLoad.errors # <<>>

\* C9: when a load attempt fails as a whole (invalid discovery document, or
\* its feeds unreachable), the failure is shown and the layers, allZones,
\* stationData and vehicleData are what they were before the attempt.
C9_FailedLoadLeavesRenderState ==
    (lastLoad.outcome = "discovery failed" \/ NothingLoaded)
        => (~lastLoad.changed /\ errorMessage # "none")

ErrorCount(errors, feedName) ==
    Cardinality({i \in DOMAIN errors : errors[i].feed = feedName})

\* the feed is a key of results or has exactly one entry in errors, not both
InResultsXorErrors(results, errors, feedName) ==
    /\ ErrorCount(errors, feedName) <= 1
    /\ (feedName \in DOMAIN results) # (ErrorCount(errors, feedName) = 1)

\* C10: while loadFeeds runs, every feed name before the one awaited is a
\* key of results or has exactly one entry in errors, never both and never
\* neither, and no later name is in either; when loadFeeds has returned,
\* this holds of every requested name, and nothing else is in results or
\* errors.
C10_EveryFeedInResultsXorErrors ==
    /\ \A l \in DOMAIN loads :
          loads[l].stage = "feeds" =>
              \A k \in DOMAIN loads[l].feedNames :
                  IF k < loads[l].next
                    THEN InResultsXorErrors(loads[l].results, loads[l].errors,
                                            loads[l].feedNames[k])
                    ELSE /\ loads[l].feedNames[k] \notin DOMAIN loads[l].results
                         /\ ErrorCount(loads[l].errors, loads[l].feedNames[k]) = 0
    /\ lastLoad.outcome = "finished" =>
          /\ \A feedName \in Range(lastLoad.feedNames) :
                InResultsXorErrors(lastLoad.results, lastLoad.errors, feedName)
          /\ DOMAIN lastLoad.results \subseteq Range(lastLoad.feedNames)
          /\ {lastLoad.errors[i].feed : i \in DOMAIN lastLoad.errors}
                \subseteq Range(lastLoad.feedNames)

\* a loadFeeds that has returned with a failed feed followed by a loaded one
C10_Witness ==
    /\ lastLoad.outcome = "finished"
    /\ \E i, j \in DOMAIN lastLoad.feedNames :
          /\ i < j
          /\ ErrorCount(lastLoad.errors, lastLoad.feedNames[i]) = 1
          /\ lastLoad.feedNames[j] \in DOMAIN lastLoad.results

--------------------------------------------------------------------------
(* Number arithmetic                                                       *)
(* A JavaScript number is a binary floating-point value: every operation   *)
(* returns the representable value nearest to the exact result.  Here a    *)
(* number is an integer count of units of 1/Unit and a representable       *)
(* value has at most SignificandBits significant bits (53 in the source's  *)
(* doubles); below 2^SignificandBits units every count is representable.   *)

\* binary digits after the point
FractionBits == 5
\* significant bits of a representable value
SignificandBits == 4

Unit == 2^FractionBits

Abs(n) == IF n < 0 THEN -n ELSE n

\* the spacing of the representable values around m units
RECURSIVE Quantum(_)
Quantum(m) == IF m < 2^SignificandBits THEN 1 ELSE 2 * Quantum(m \div 2)

\* a / b rounded to the nearest integer, ties to even (a >= 0, b > 0)
RoundHalfEven(a, b) ==
    LET f == a \div b
        r == a % b
    IN  IF 2 * r < b THEN f
        ELSE IF 2 * r > b THEN f + 1
        ELSE IF f % 2 = 0 THEN f ELSE f + 1

\* the representable value nearest to n / d units
Rounded(n, d) ==
    LET a == Abs(n)
        b == Abs(d)
        q == Quantum(a \div b)
        m == RoundHalfEven(a, b * q) * q
    IN  IF (n < 0) # (d < 0) THEN -m ELSE m

\* the operators +, -, * and / on numbers
FAdd(a, b) == Rounded(a + b, 1)
FSub(a, b) == Rounded(a - b, 1)
FMul(a, b) == Rounded(a * b, Unit)
FDiv(a, b) == Rounded(a * Unit, b)

\* the representable values from 0 to max units
Numbers(max) == {v \in 0..max : Rounded(v, 1) = v}

--------------------------------------------------------------------------
(* isPointInPolygon called on its own *)

\* One step of the loop of isPointInPolygon, operation by operation:
\*     ((yi > y) !== (yj > y)) && (x < (xj - xi) * (y - yi) / (yj - yi) + xi)
IntersectNumbers(point, polygon, i, j) ==
    LET x  == point.lat
        y  == point.lng
        xi == polygon[i].lat
        yi == polygon[i].lng
        xj == polygon[j].lat
        yj == polygon[j].lng
    IN  /\ (yi > y) # (yj > y)
        /\ x < FAdd(FDiv(FMul(FSub(xj, xi), FSub(y, yi)), FSub(yj, yi)), xi)

\* isPointInPolygon with `inside` set, never toggled back, by an intersecting edge
isPointInPolygonNumbers_any(point, polygon) ==
    LET n == Len(polygon)
    IN  \E i \in 1..n : IntersectNumbers(point, polygon, i, IF i = 1 THEN n ELSE i - 1)

\* isPointInPolygon on numbers: `inside` is toggled once per intersecting
\* edge; j runs one behind i and starts at the last vertex
isPointInPolygonNumbers(point, polygon) ==
    LET n == Len(polygon)
        toggles == {i \in 1..n :
                       IntersectNumbers(point, polygon, i, IF i = 1 THEN n ELSE i - 1)}
    IN  Cardinality(toggles) % 2 = 1

\* the largest coordinate of a ring vertex and of a point, in whole degrees
MaxCoordinate == 3

\* vertices of the rings tried: whole degrees
RingVertices == {[lat |-> a * Unit, lng |-> b * Unit] : a, b \in {0, 1, MaxCoordinate}}
\* rings of 0, 1 or 2 vertices
DegenerateRings == SeqsUpTo(RingVertices, 2)

\* twice the signed area of the triangle a, b, c
Cross(a, b, c) == (b.lat - a.lat) * (c.lng - a.lng) - (b.lng - a.lng) * (c.lat - a.lat)

\* the ring turns the same way at every vertex
IsConvex(ring) ==
    LET n == Len(ring)
        Turn(i) == Cross(ring[i], ring[(i % n) + 1], ring[((i + 1) % n) + 1])
    IN  \/ \A i \in 1..n : Turn(i) > 0
        \/ \A i \in 1..n : Turn(i) < 0

\* the convex rings of 3 and 4 vertices, each written from its first vertex
\* in the order of RingOrder, clockwise and counterclockwise
RingOrder(v) == v.lat * (MaxCoordinate + 1) + v.lng
ConvexRings ==
    {ring \in [1..3 -> RingVertices] \cup [1..4 -> RingVertices] :
        /\ \A i \in 2..Len(ring) : RingOrder(ring[1]) < RingOrder(ring[i])
        /\ IsConvex(ring)}
\* the points tried: every pair of representable values
ProbePoints ==
    {[lat |-> a, lng |-> b] : a, b \in Numbers(MaxCoordinate * Unit)}

RingInit ==
    /\ allZones = <<>>
    /\ zonesLayer = {}
    /\ clickPoint = NoPoint
    /\ overlappingZones = <<>>
    /\ uniqueZones = <<>>
    /\ popup = NoPopup
    /\ AppStart
    /\ LimiterStart
    /\ \E polygon \in DegenerateRings \cup ConvexRings, point \in ProbePoints :
          probe = [fn |-> "isPointInPolygon", point |-> point, polygon |-> polygon,
                   called |-> FALSE, inside |-> FALSE]

\* isPointInPolygon(point, polygon) returns
CallIsPointInPolygon ==
    /\ probe.fn = "isPointInPolygon"
    /\ ~probe.called
    /\ probe' = [probe EXCEPT !.called = TRUE,
                              !.inside = isPointInPolygonNumbers(probe.point, probe.polygon)]
    /\ UNCHANGED <<zoneVars, appVars, limiterVars>>

RingNext == CallIsPointInPolygon

SpecRing == RingInit /\ [][RingNext]_vars

\* C11: a ring of fewer than 3 vertices matches no point: isPointInPolygon
\* returns false for every point when the ring has 0, 1 or 2 vertices.
C11_DegenerateRingMatchesNoPoint ==
    (probe.fn = "isPointInPolygon" /\ probe.called /\ Len(probe.polygon) < 3)
        => ~probe.inside

--------------------------------------------------------------------------
(* Claims about station feeds (checked under SpecStations) *)

\* the station has what its rendering branch asks for: an area when it is
\* virtual, lat and lon otherwise
HasLocation(station) == IsVirtualWithArea(station) \/ station.has_lat_lon

\* the station is the station of an item of stationData whose element is on
\* the stations layer
Rendered(station) ==
    {r \in Range(stationData) :
        /\ stationItems[r].station = station
        /\ stationItems[r].marker \in stationsLayer} # {}

\* C12: when loadStations has run on a feed, every station of the feed that
\* has an area or point coordinates is rendered and recorded in stationData,
\* whatever the other records of the feed lack.
C12_BadStationNeverAbortsTheRest ==
    (lastLoad.outcome = "finished" /\ "station_information" \in DOMAIN lastLoad.results)
        => LET stations == StationsOf(lastLoad.results["station_information"])
           IN  \A i \in DOMAIN stations :
                  HasLocation(stations[i]) => Rendered(stations[i])

--------------------------------------------------------------------------
(* Claims about the debounce timer (checked under Spec) *)

\* the step runs the body of a timeout: a pending timer goes and none comes
DebouncedBodyRuns == \E t \in timers : timers' = timers \ {t}

\* C13: at most one zoom-debounce timer is pending at any time, and it is
\* the one zoomDebounceTimeout names (a timer a later zoomend cancelled is
\* gone); the debounced body never runs earlier than 150 ms after the most
\* recent zoomend event.
C13_OnePendingTimerRunsAfterDebounce ==
    /\ [](/\ Cardinality(timers) <= 1
          /\ \A t \in timers : t.id = zoomDebounceTimeout)
    /\ [][DebouncedBodyRuns => sinceZoomEnd = DebounceMs]_vars

\* a zoomend has cancelled the timer of the zoomend before it, and the timer
\* it armed has run
C13_Witness ==
    /\ burst.step = 2
    /\ timers = {}
    /\ sinceZoomEnd = DebounceMs
    /\ zoomDebounceTimeout # 0

--------------------------------------------------------------------------
(* The rate limiter of GBFSLoader: rateLimitedFetch and processQueue       *)
(* Any code may call rateLimitedFetch at any moment; the loads above see   *)
(* of it only that each of their fetches settles at some time.             *)

\* rateLimitedFetch calls made in all
MaxRequests == 3
\* time passes in steps of LimiterTickMs
LimiterTickMs == 250
\* steps of time considered
MaxTicks == 8

\* a processQueue that never finds the queue being processed
Busy_never(flag) == FALSE

\* if (this.isProcessingQueue || ...) return
Busy(flag) == flag

\* a processQueue that never waits
WaitTime_none(time) == 0

\* Math.max(0, this.minRequestInterval - (now - this.lastRequestTime))
WaitTime(time) ==
    LET timeSinceLastRequest == time - lastRequestTime
    IN  Max(0, minRequestInterval - timeSinceLastRequest)

\* a processQueue that leaves without lowering its flag
FlagAfterLoop_kept == TRUE

\* this.isProcessingQueue = false, after the while loop
FlagAfterLoop == FALSE

\* processQueue from the test of its while loop to its next await, run by
\* the call `self` on the queue `queue`:
\* the loop is left when the queue is empty; otherwise the first request is
\* shifted and the call awaits the timeout when it has to wait, the fetch
\* when it has not (left is what remains of the timeout)
LoopTop(self, queue, others) ==
    IF Len(queue) = 0
      THEN /\ requestQueue' = queue
           /\ isProcessingQueue' = FlagAfterLoop
           /\ processing' = others
           /\ UNCHANGED <<lastRequestTime, fetchStarts>>
      ELSE LET request == Head(queue)
               waitTime == WaitTime(now)
           IN  /\ requestQueue' = Tail(queue)
               /\ isProcessingQueue' = TRUE
               /\ IF waitTime > 0
                    THEN /\ processing' = others \cup
                               {[id |-> self, at |-> "timeout", request |-> request,
                                 waitTime |-> waitTime, left |-> waitTime]}
                         /\ UNCHANGED <<lastRequestTime, fetchStarts>>
                    ELSE /\ processing' = others \cup
                               {[id |-> self, at |-> "fetch", request |-> request,
                                 waitTime |-> waitTime, left |-> 0]}
                         /\ lastRequestTime' = now
                         /\ fetchStarts' = Append(fetchStarts, now)

\* rateLimitedFetch(url): the request is pushed and processQueue is called;
\* the call returns at once when the queue is being processed
PushRequest ==
    /\ requested < MaxRequests
    /\ requested' = requested + 1
    /\ LET queue == Append(requestQueue, requested + 1)
       IN  IF Busy(isProcessingQueue) \/ Len(queue) = 0
             THEN /\ requestQueue' = queue
                  /\ UNCHANGED <<isProcessingQueue, lastRequestTime, processing,
                                 fetchStarts>>
             ELSE LoopTop(SmallestUnused({p.id : p \in processing}), queue, processing)
    /\ UNCHANGED <<now, zoneVars, appVars>>

\* rateLimitedFetch(url)
RateLimitedFetch == PushRequest /\ UNCHANGED probe

\* the timeout a processQueue call awaits has passed: the call stores the
\* time and starts its fetch
TimeoutPassed(p) ==
    /\ p.at = "timeout"
    /\ p.left = 0
    /\ lastRequestTime' = now
    /\ fetchStarts' = Append(fetchStarts, now)
    /\ processing' = (processing \ {p}) \cup {[p EXCEPT !.at = "fetch"]}
    /\ UNCHANGED <<requestQueue, isProcessingQueue, now, requested, probe,
                   zoneVars, appVars>>

\* the fetch a processQueue call awaits settles: the request's promise is
\* resolved or rejected and the loop goes on
SettleFetch(p) ==
    /\ p.at = "fetch"
    /\ LoopTop(p.id, requestQueue, processing \ {p})
    /\ UNCHANGED <<now, requested, zoneVars, appVars>>

\* the fetch of a processQueue call settles
FetchSettled(p) == SettleFetch(p) /\ UNCHANGED probe

\* time passes
LimiterTick ==
    /\ now < StartTime + MaxTicks * LimiterTickMs
    /\ now' = now + LimiterTickMs
    /\ processing' = {[p EXCEPT !.left = Max(0, @ - LimiterTickMs)] : p \in processing}
    /\ UNCHANGED <<requestQueue, isProcessingQueue, lastRequestTime, requested,
                   fetchStarts, probe, zoneVars, appVars>>

LimiterNext ==
    \/ RateLimitedFetch
    \/ \E p \in processing : TimeoutPassed(p)
    \/ \E p \in processing : FetchSettled(p)
    \/ LimiterTick

SpecLimiter == Init /\ [][LimiterNext]_vars

\* C14: fetches issued through rateLimitedFetch are serialized: at most one
\* processQueue loop is active and at most one of its fetches is in flight,
\* and isProcessingQueue is set exactly while a loop is active.
C14_OneLoopOneFetchInFlight ==
    /\ Cardinality(processing) <= 1
    /\ Cardinality({p \in processing : p.at = "fetch"}) <= 1
    /\ isProcessingQueue = (processing # {})

\* rateLimitedFetch has been called while a fetch was in flight: its request
\* waits in the queue
C14_Witness ==
    /\ requestQueue # <<>>
    /\ {p \in processing : p.at = "fetch"} # {}

\* C15: any two consecutive fetches of the rate limiter begin at least
\* minRequestInterval apart.
C15_FetchesStartIntervalApart ==
    \A k \in 1..(Len(fetchStarts) - 1) :
        fetchStarts[k + 1] - fetchStarts[k] >= minRequestInterval

\* a request that arrived less than minRequestInterval after the fetch before
\* it has had its fetch started, the interval after that one
C15_Witness ==
    \E k \in 1..(Len(fetchStarts) - 1) :
        fetchStarts[k + 1] - fetchStarts[k] = minRequestInterval

--------------------------------------------------------------------------
(* Claims about the keys of the precedence analysis (checked under SpecZones) *)

\* the keys under which the analysis lists rule r of zone z
KeysOfRule(z, r) ==
    {Lists[m].key : m \in {m \in 1..Len(Lists) :
        \E i \in 1..Len(Lists[m].rules) :
            /\ Lists[m].rules[i].zoneIndex = z - 1
            /\ Lists[m].rules[i].ruleIndex = r - 1}}

--------------------------------------------------------------------------
(* Claims about the stations outside the zoom state machine (checked under Spec) *)

\* the station is not a virtual station with an area
PointStation(station) == ~(station.is_virtual_station /\ station.station_area)

\* C17: through every sequence of zoom events and mode changes, the map
\* element of a station of stationData that is not a virtual station with an
\* area is the point marker loadStations made: it stays attached and no
\* refresh ever touches the item.
C17_PointStationsKeepTheirMarker ==
    \A r \in Range(stationData) :
        PointStation(stationItems[r].station) =>
            /\ stationItems[r].marker = [of |-> r, form |-> "point"]
            /\ stationItems[r].marker \in stationsLayer
            /\ stationItems[r].refreshes = 0
            /\ stationItems[r].cachedData = NoCache

\* the zoom has crossed the threshold both ways: the virtual station next to
\* a point station has been refreshed twice
C17_Witness ==
    /\ \E r \in Range(stationData) : PointStation(stationItems[r].station)
    /\ \E r \in Range(stationData) :
          /\ ~PointStation(stationItems[r].station)
          /\ stationItems[r].refreshes = 2
    /\ zoom >= virtualStationZoomThreshold

--------------------------------------------------------------------------
(* Claims about what a load leaves behind (checked under SpecLoad) *)

\* allZones as loadGeofencingZones derives it from the feeds the load got
ZonesOfLoad(results) ==
    IF "geofencing_zones" \in DOMAIN results
      THEN LoadedZones(Parsed(0, ZonesOf(results["geofencing_zones"])))
      ELSE <<>>

\* the station records loadStations keeps from the feeds the load got
StationsOfLoad(results) ==
    IF "station_information" \in DOMAIN results
      THEN LET info == results["station_information"]
               status == IF "station_status" \in DOMAIN results
                           THEN results["station_status"] ELSE NoSystem
               kept == loadStations(info, status, zoom).stationData
           IN  [k \in 1..Len(kept) |-> StationsOf(info)[kept[k][2]]]
      ELSE <<>>

\* C18: when a load has completed, allZones and stationData hold exactly the
\* records derived from the feeds of that load, and nothing of an earlier
\* load, also when the load had no geofencing_zones or no
\* station_information feed.
C18_CollectionsHoldTheLoadOnly ==
    lastLoad.outcome = "finished" =>
        /\ allZones = ZonesOfLoad(lastLoad.results)
        /\ [k \in 1..Len(stationData) |-> stationItems[stationData[k]].station]
              = StationsOfLoad(lastLoad.results)

--------------------------------------------------------------------------
(* Claims about isPointInPolygon on convex rings (checked under SpecRing) *)

\* the point lies on the same side of every edge of the convex ring, on none
StrictlyInside(point, ring) ==
    LET n == Len(ring)
        Side(i) == Cross(ring[i], ring[(i % n) + 1], point)
    IN  \/ \A i \in 1..n : Side(i) > 0
        \/ \A i \in 1..n : Side(i) < 0

\* the point lies outside the box around the ring's vertices
OutsideBounds(point, ring) ==
    \/ \A i \in 1..Len(ring) : point.lat < ring[i].lat
    \/ \A i \in 1..Len(ring) : point.lat > ring[i].lat
    \/ \A i \in 1..Len(ring) : point.lng < ring[i].lng
    \/ \A i \in 1..Len(ring) : point.lng > ring[i].lng

ConvexCall ==
    probe.fn = "isPointInPolygon" /\ probe.called /\ Len(probe.polygon) >= 3

MarginUlps == 4
EdgeMargin == MarginUlps * Quantum(MaxCoordinate * Unit)

\* the point is strictly inside the convex ring, and on its line of constant
\* lng it is farther than EdgeMargin from every edge that crosses the line
ClearInside(point, ring) ==
    LET n == Len(ring)
        x == point.lat
        y == point.lng
        Far(i, j) ==
            LET xi == ring[i].lat
                yi == ring[i].lng
                xj == ring[j].lat
                yj == ring[j].lng
            IN  ((yi > y) # (yj > y)) =>
                    Abs(x * (yj - yi) - ((xj - xi) * (y - yi) + xi * (yj - yi)))
                        > EdgeMargin * Abs(yj - yi)
    IN  /\ StrictlyInside(point, ring)
        /\ \A i \in 1..n : Far(i, IF i = 1 THEN n ELSE i - 1)

--------------------------------------------------------------------------
(* calculatePolygonCentroid called on its own *)

\* x += coord[index] over the first k positions of the ring, starting from 0
RECURSIVE Accumulate(_, _, _)
Accumulate(ring, k, index) ==
    IF k = 0 THEN 0 ELSE FAdd(Accumulate(ring, k - 1, index), ring[k][index])

\* calculatePolygonCentroid averaging the vertices of every ring of the first polygon
calculatePolygonCentroid_allRings(coordinates) ==
    LET RingAt(k) == coordinates[1][k]
        ring == ConcatRange(RingAt, 1, Len(coordinates[1]))
        x == Accumulate(ring, Len(ring), 1)
        y == Accumulate(ring, Len(ring), 2)
    IN  <<FDiv(y, Len(ring) * Unit), FDiv(x, Len(ring) * Unit)>>

\* calculatePolygonCentroid(coordinates): a coordinate is the array [lng, lat],
\* the result the array [lat, lng]
calculatePolygonCentroid(coordinates) ==
    LET ring == coordinates[1][1]
        x == Accumulate(ring, Len(ring), 1)
        y == Accumulate(ring, Len(ring), 2)
    IN  <<FDiv(y, Len(ring) * Unit), FDiv(x, Len(ring) * Unit)>>

\* the largest coordinate of a vertex of a station area, in whole degrees
MaxAreaCoordinate == 2

\* [lng, lat] positions on whole degrees
AreaVertices == {<<a * Unit, b * Unit>> : a, b \in 0..MaxAreaCoordinate}
\* the ring [(0,0),(2,0),(2,2),(0,2)]
SquareArea == <<<<0, 0>>, <<2 * Unit, 0>>, <<2 * Unit, 2 * Unit>>, <<0, 2 * Unit>>>>
\* first rings tried: every ring of 3 vertices, and the square
FirstRings == [1..3 -> AreaVertices] \cup {SquareArea}
\* rings tried as holes of the first polygon and as further polygons
OtherRings ==
    {<<<<Unit, Unit>>, <<2 * Unit, Unit>>, <<Unit, 2 * Unit>>>>,
     <<<<0, 2 * Unit>>, <<0, Unit>>, <<Unit, Unit>>, <<Unit, 2 * Unit>>>>}
\* MultiPolygon coordinates: a first polygon with at most one hole, and at
\* most one further polygon
AreaCoordinates ==
    LET firstPolygons == {<<ring>> : ring \in FirstRings}
                            \cup {<<ring, hole>> : ring \in FirstRings, hole \in OtherRings}
    IN  {<<polygon>> : polygon \in firstPolygons}
            \cup {<<polygon, <<other>>>> : polygon \in firstPolygons, other \in OtherRings}

CentroidInit ==
    /\ allZones = <<>>
    /\ zonesLayer = {}
    /\ clickPoint = NoPoint
    /\ overlappingZones = <<>>
    /\ uniqueZones = <<>>
    /\ popup = NoPopup
    /\ AppStart
    /\ LimiterStart
    /\ \E coordinates \in AreaCoordinates :
          probe = [fn |-> "calculatePolygonCentroid", coordinates |-> coordinates,
                   called |-> FALSE, centroid |-> <<>>]

\* calculatePolygonCentroid(coordinates) returns
CallCalculatePolygonCentroid ==
    /\ probe.fn = "calculatePolygonCentroid"
    /\ ~probe.called
    /\ probe' = [probe EXCEPT !.called = TRUE,
                              !.centroid = calculatePolygonCentroid(probe.coordinates)]
    /\ UNCHANGED <<zoneVars, appVars, limiterVars>>

CentroidNext == CallCalculatePolygonCentroid

SpecCentroid == CentroidInit /\ [][CentroidNext]_vars

\* the sum, in exact arithmetic, of one coordinate of the ring's vertices
RECURSIVE ExactSum(_, _, _)
ExactSum(ring, k, index) ==
    IF k = 0 THEN 0 ELSE ExactSum(ring, k - 1, index) + ring[k][index]

\* the number nearest to the arithmetic mean of one coordinate of the vertices
MeanOf(ring, index) == Rounded(ExactSum(ring, Len(ring), index), Len(ring))

\* C20: calculatePolygonCentroid returns (lat, lng), the arithmetic mean of the
\* vertices of the first ring of the first polygon; coordinates that differ
\* only in other rings or polygons give the same result; for the ring
\* [(0,0),(2,0),(2,2),(0,2)] of (lng, lat) pairs the result is (1, 1).
C20_CentroidIsMeanOfFirstRingOnly ==
    (probe.fn = "calculatePolygonCentroid" /\ probe.called) =>
        LET ring == probe.coordinates[1][1]
        IN  /\ probe.centroid = <<MeanOf(ring, 2), MeanOf(ring, 1)>>
            /\ \A other \in AreaCoordinates :
                  other[1][1] = ring => calculatePolygonCentroid(other) = probe.centroid
            /\ ring = SquareArea => probe.centroid = <<Unit, Unit>>

\* the centroid of the square was computed with a hole and a further polygon present
C20_Witness ==
    /\ probe.fn = "calculatePolygonCentroid"
    /\ probe.called
    /\ probe.coordinates[1][1] = SquareArea
    /\ Len(probe.coordinates[1]) = 2
    /\ Len(probe.coordinates) = 2
    /\ probe.centroid = <<Unit, Unit>>

--------------------------------------------------------------------------
(* The click handler run again with the same point *)

\* distinct points whose first result is kept
MaxPoints == 2

\* Zones are loaded and the user clicks; the history in probe keeps the zone
\* collection as loaded and, per point, the list the first click there gave.
ResolveInit ==
    /\ \E features \in ZoneFeeds :
          /\ allZones = LoadedZones(Parsed(0, features))
          /\ zonesLayer = LoadedPolygons(Parsed(0, features))
          /\ probe = [fn |-> "click", zones |-> LoadedZones(Parsed(0, features)),
                      first |-> EmptyMap, again |-> FALSE]
    /\ clickPoint = NoPoint
    /\ overlappingZones = <<>>
    /\ uniqueZones = <<>>
    /\ popup = NoPopup
    /\ AppStart
    /\ LimiterStart

\* polygon.on('click', ...), with the history
ZoneClickRecorded(point) ==
    /\ probe.fn = "click"
    /\ point \in DOMAIN probe.first \/ Cardinality(DOMAIN probe.first) < MaxPoints
    /\ ClickHandler(point)
    /\ probe' = [probe EXCEPT
                    !.first = IF point \in DOMAIN probe.first THEN @
                              ELSE Put(@, point, uniqueZones'),
                    !.again = point \in DOMAIN probe.first]
    /\ UNCHANGED <<appVars, limiterVars>>

ResolveNext == \E point \in GridPoints : ZoneClickRecorded(point)

SpecResolve == ResolveInit /\ [][ResolveNext]_vars

--------------------------------------------------------------------------
(* The zone statistics of loadGBFSSystem, computed on their own *)

\* a rule as the statistics read it
StatRule(parking, start, end, through, speed) ==
    [station_parking |-> parking, ride_start_allowed |-> start,
     ride_end_allowed |-> end, ride_through_allowed |-> through,
     has_maximum_speed_kph |-> speed]

PlainRule   == StatRule(FALSE, TRUE, TRUE, TRUE, FALSE)
ParkingRule == StatRule(TRUE, TRUE, TRUE, TRUE, FALSE)
NoRideRule  == StatRule(FALSE, FALSE, FALSE, FALSE, FALSE)
SlowRule    == StatRule(FALSE, TRUE, FALSE, TRUE, TRUE)
AllRule     == StatRule(TRUE, FALSE, FALSE, FALSE, TRUE)
StatRules == {PlainRule, ParkingRule, NoRideRule, SlowRule, AllRule}

\* rules of one zone, and zones of one load
MaxStatRules == 2
MaxStatZones == 2

StatZone(hasRules, rules) ==
    [feature |-> [properties |-> [has_rules |-> hasRules, rules |-> rules]]]
\* a zone without a rules property, and zones with 0..MaxStatRules rules
StatZones == {StatZone(FALSE, <<>>)}
                \cup {StatZone(TRUE, rules) : rules \in SeqsUpTo(StatRules, MaxStatRules)}
StatZoneLists == SeqsUpTo(StatZones, MaxStatZones)

\* counts.stationParking, counts.noRide and counts.speedLimited left undefined
NoCounts == [defined |-> FALSE, stationParking |-> 0, noRide |-> 0, speedLimited |-> 0]

\* the three tests of the forEach callback
IsStationParking(rule) == rule.station_parking
IsNoRide(rule) ==
    ~rule.ride_start_allowed /\ ~rule.ride_end_allowed /\ ~rule.ride_through_allowed
IsSpeedLimited(rule) == rule.has_maximum_speed_kph

\* 1 when the test holds, for count++
Incr(test) == IF test THEN 1 ELSE 0

\* a callback that looks at every rule of the zone
CountZone_anyRule(counts, zone) ==
    LET rules == zone.feature.properties.rules
        Some(Test(_)) == \E r \in 1..Len(rules) : Test(rules[r])
    IN  [counts EXCEPT
            !.stationParking = @ + Incr(Some(IsStationParking)),
            !.noRide = @ + Incr(Some(IsNoRide)),
            !.speedLimited = @ + Incr(Some(IsSpeedLimited))]

\* the forEach callback: counts after one zone
CountZone(counts, zone) ==
    IF zone.feature.properties.has_rules /\ Len(zone.feature.properties.rules) > 0
    THEN LET rule == zone.feature.properties.rules[1]
         IN  [counts EXCEPT
                 !.stationParking = @ + Incr(IsStationParking(rule)),
                 !.noRide = @ + Incr(IsNoRide(rule)),
                 !.speedLimited = @ + Incr(IsSpeedLimited(rule))]
    ELSE counts

\* allZones.forEach over the first k zones, from counts of 0
RECURSIVE CountZones(_, _)
CountZones(zones, k) ==
    IF k = 0 THEN [NoCounts EXCEPT !.defined = TRUE]
    ELSE CountZone(CountZones(zones, k - 1), zones[k])

\* "Calculate zone statistics": only if (allZones.length > 0)
ZoneStatistics(zones) ==
    IF Len(zones) > 0 THEN CountZones(zones, Len(zones)) ELSE NoCounts

StatisticsInit ==
    /\ allZones = <<>>
    /\ zonesLayer = {}
    /\ clickPoint = NoPoint
    /\ overlappingZones = <<>>
    /\ uniqueZones = <<>>
    /\ popup = NoPopup
    /\ AppStart
    /\ LimiterStart
    /\ \E zones \in StatZoneLists :
          probe = [fn |-> "zoneStatistics", zones |-> zones, called |-> FALSE,
                   counts |-> NoCounts]

\* the statistics block of loadGBFSSystem runs on the loaded zones
CalculateZoneStatistics ==
    /\ probe.fn = "zoneStatistics"
    /\ ~probe.called
    /\ probe' = [probe EXCEPT !.called = TRUE, !.counts = ZoneStatistics(probe.zones)]
    /\ UNCHANGED <<zoneVars, appVars, limiterVars>>

StatisticsNext == CalculateZoneStatistics

SpecStatistics == StatisticsInit /\ [][StatisticsNext]_vars

\* the zones that have a first rule, and those whose first rule passes a test
WithFirstRule(zones) ==
    {i \in 1..Len(zones) : zones[i].feature.properties.has_rules
                              /\ Len(zones[i].feature.properties.rules) > 0}
FirstRulePasses(zones, Test(_)) ==
    Cardinality({i \in WithFirstRule(zones) : Test(zones[i].feature.properties.rules[1])})

\* two zone lists agree on which zones have rules and on every first rule
SameFirstRules(a, b) ==
    /\ Len(a) = Len(b)
    /\ WithFirstRule(a) = WithFirstRule(b)
    /\ \A i \in WithFirstRule(a) :
          a[i].feature.properties.rules[1] = b[i].feature.properties.rules[1]

\* C22: each of stationParking, noRide and speedLimited counts the loaded zones
\* whose first rule is of that category: zone lists that differ only in rules
\* other than rules[0] have the same counts, a zone with no rules is counted
\* nowhere, and no count exceeds the number of loaded zones.
C22_CountsFromFirstRulesOnly ==
    (probe.fn = "zoneStatistics" /\ probe.called /\ Len(probe.zones) > 0) =>
        /\ probe.counts.defined
        /\ probe.counts.stationParking = FirstRulePasses(probe.zones, IsStationParking)
        /\ probe.counts.noRide = FirstRulePasses(probe.zones, IsNoRide)
        /\ probe.counts.speedLimited = FirstRulePasses(probe.zones, IsSpeedLimited)
        /\ \A other \in StatZoneLists :
              SameFirstRules(other, probe.zones) => ZoneStatistics(other) = probe.counts
        /\ \A c \in {probe.counts.stationParking, probe.counts.noRide,
                     probe.counts.speedLimited} : c <= Len(probe.zones)

\* a zone without rules and a zone whose second rule is of every category while
\* its first is of none: no count moved
C22_Witness ==
    /\ probe.fn = "zoneStatistics"
    /\ probe.called
    /\ probe.zones = <<StatZone(TRUE, <<>>), StatZone(TRUE, <<PlainRule, AllRule>>)>>
    /\ probe.counts = [NoCounts EXCEPT !.defined = TRUE]

--------------------------------------------------------------------------
(* Claims about the debounced zoom handler (checked under Spec) *)

\* the virtual stations of stationData are all on the map in the form the
\* threshold asks for at the present zoom
ShownOnThisSide ==
    /\ VirtualItems # {}
    /\ \A r \in VirtualItems :
          /\ stationItems[r].marker \in stationsLayer
          /\ stationItems[r].marker.form = FormAt(zoom)

\* the debounced body called refreshVirtualStationDisplay
RefreshCalled == DebouncedBodyRuns /\ currentVirtualDisplayMode' # currentVirtualDisplayMode

\* C23: the debounced zoom handler calls refreshVirtualStationDisplay only when
\* the threshold is crossed: when the zoom settles on the side of the threshold
\* whose form the virtual stations already have on the map, the handler makes
\* no call, the first settle after page start included.
C23_NoRefreshWithoutCrossing ==
    [][(DebouncedBodyRuns /\ ShownOnThisSide) => ~RefreshCalled]_vars

--------------------------------------------------------------------------
(* A second load started while the first awaits its feeds *)

\* the loads awaiting a feed
AwaitingFeeds == {l \in DOMAIN loads : loads[l].stage = "feeds"}

\* The user submits a URL when no load runs, or when the one load that runs
\* has its discovery document and awaits its feeds; every discovery document
\* arrives.  The discovery documents then arrive in the order the loads were
\* started, and gbfsData is the document of the load started last.
NextOverlap ==
    \/ /\ \/ DOMAIN loads = {}
          \/ DOMAIN loads = {1} /\ AwaitingFeeds = {1}
       /\ LoadFromUrl
    \/ \E l \in DOMAIN loads, sys \in Systems : DiscoveryLoaded(l, sys)
    \/ \E l \in DOMAIN loads, ok \in BOOLEAN, fit \in FitZooms : FeedSettles(l, ok, fit)

SpecOverlap == Init /\ [][NextOverlap]_vars

\* every rendered collection and every loaded feed comes from the feeds of sys
DerivedFrom(sys) ==
    /\ allZones \in {<<>>, LoadedZones(Parsed(0, ZonesOf(sys)))}
    /\ \A k \in 1..Len(stationData) :
          stationItems[stationData[k]].station \in Range(StationsOf(sys))
    /\ \A k \in 1..Len(vehicleData) : vehicleData[k].vehicle \in Range(VehiclesOf(sys))
    /\ \A feed \in DOMAIN loadedFeeds : loadedFeeds[feed] = sys

\* C24: when a second load was started while the first awaited its feeds and
\* both have finished, the zones, stations and vehicles on the map and the
\* loader's loadedFeeds all derive from the discovery document of the second
\* load, the one gbfsData holds: nothing of the first system is left.
C24_SecondLoadOnly ==
    (DOMAIN loads = {} /\ lastLoad.outcome = "finished") => DerivedFrom(gbfsData)

--------------------------------------------------------------------------
(* Claims about the loader's feeds (checked under SpecLoad) *)

\* getFeed(feedName): this.loadedFeeds[feedName] || null
getFeed(feedName) ==
    IF feedName \in DOMAIN loadedFeeds THEN loadedFeeds[feedName] ELSE NoSystem

\* C25: what getFeed returns for a feed name is null or the feed a loadFeed
\* call fetched for the discovery document of the most recent successful
\* loadGBFS, the one gbfsData holds; no feed fetched for an earlier discovery
\* document is visible, and systemInfo is of that document too.
C25_FeedsAreOfCurrentDocument ==
    /\ \A i \in 1..Len(FeedOrder) : getFeed(FeedOrder[i]) \in {NoSystem, gbfsData}
    /\ systemInfo \in {NoSystem, gbfsData}

--------------------------------------------------------------------------
(* loadGBFS called on its own *)

\* The first argument of loadGBFS.  is_string: typeof data === 'string';
\* parses: JSON.parse accepts it; has_data, has_feeds: data.data and
\* data.data.feeds are truthy; feeds_is_array: data.data.feeds has a map
\* method; doc names the document.
Discovery(doc, isString, parses, hasData, hasFeeds, isArray) ==
    [doc |-> doc, is_string |-> isString, parses |-> parses, has_data |-> hasData,
     has_feeds |-> hasFeeds, feeds_is_array |-> isArray]

DiscoveryArguments ==
    {Discovery("S1", FALSE, TRUE, TRUE, TRUE, TRUE),
     Discovery("S2", TRUE, TRUE, TRUE, TRUE, TRUE),
     Discovery("bad", TRUE, FALSE, FALSE, FALSE, FALSE),
     Discovery("bad", FALSE, TRUE, FALSE, FALSE, FALSE),
     Discovery("bad", TRUE, TRUE, TRUE, FALSE, FALSE),
     Discovery("odd", FALSE, TRUE, TRUE, TRUE, FALSE)}

\* The second argument of loadGBFS.  http: it starts with http:// or
\* https://; valid: new URL(path) accepts it.
SourcePath(text, http, valid) == [text |-> text, http |-> http, valid |-> valid]
SourcePaths ==
    {SourcePath("", FALSE, FALSE),
     SourcePath("gbfs.json", FALSE, FALSE),
     SourcePath("https://host/S/gbfs.json", TRUE, TRUE),
     SourcePath("http://", TRUE, FALSE)}

\* getBaseUrl(path): throws is new URL(path) throwing a TypeError
getBaseUrl(path) ==
    IF path.http
      THEN IF path.valid THEN [throws |-> FALSE, value |-> "https://host/S/"]
           ELSE [throws |-> TRUE, value |-> ""]
      ELSE [throws |-> FALSE, value |-> "LOCAL_FILE"]

\* the four fields of the loader that loadGBFS writes
Loader(data, baseUrl, feeds, info) ==
    [gbfsData |-> data, baseUrl |-> baseUrl, loadedFeeds |-> feeds, systemInfo |-> info]

\* the loader of the constructor, and loaders that hold a system and some of
\* its feeds
LoaderStates ==
    {Loader(NoSystem, "", EmptyMap, NoSystem)}
        \cup UNION {{Loader(sys, base, [feed \in feeds |-> sys], info) :
                        base \in {"LOCAL_FILE", "https://host/S/"},
                        feeds \in SUBSET FeedsOf(sys), info \in {NoSystem, sys}} :
                     sys \in Systems}

\* loadGBFS(data, sourcePath), statement by statement: the loader it leaves
\* and whether it threw
loadGBFS(loader, data, sourcePath) ==
    IF data.is_string /\ ~data.parses
      THEN [loader |-> loader, threw |-> TRUE]
    ELSE IF ~data.has_data \/ ~data.has_feeds
      THEN [loader |-> loader, threw |-> TRUE]
    ELSE LET stored == [loader EXCEPT !.gbfsData = data.doc]
             base == getBaseUrl(sourcePath)
         IN  IF base.throws THEN [loader |-> stored, threw |-> TRUE]
             ELSE LET cleared == [stored EXCEPT !.baseUrl = base.value,
                                                !.loadedFeeds = EmptyMap,
                                                !.systemInfo = NoSystem]
                  IN  [loader |-> cleared, threw |-> ~data.feeds_is_array]

LoadGBFSInit ==
    /\ allZones = <<>>
    /\ zonesLayer = {}
    /\ clickPoint = NoPoint
    /\ overlappingZones = <<>>
    /\ uniqueZones = <<>>
    /\ popup = NoPopup
    /\ AppStart
    /\ LimiterStart
    /\ \E loader \in LoaderStates, data \in DiscoveryArguments, path \in SourcePaths :
          probe = [fn |-> "loadGBFS", before |-> loader, data |-> data,
                   sourcePath |-> path, called |-> FALSE, loader |-> loader,
                   threw |-> FALSE]

\* loadGBFS(data, sourcePath) returns or throws
CallLoadGBFS ==
    /\ probe.fn = "loadGBFS"
    /\ ~probe.called
    /\ LET outcome == loadGBFS(probe.loader, probe.data, probe.sourcePath)
       IN  probe' = [probe EXCEPT !.called = TRUE, !.loader = outcome.loader,
                                  !.threw = outcome.threw]
    /\ UNCHANGED <<zoneVars, appVars, limiterVars>>

LoadGBFSNext == CallLoadGBFS

SpecLoadGBFS == LoadGBFSInit /\ [][LoadGBFSNext]_vars

\* C26: whenever loadGBFS throws, for an unparsable string, a document without
\* data or data.feeds, or a source path whose base URL cannot be derived, the
\* loader's gbfsData, baseUrl, loadedFeeds and systemInfo are what they were
\* before the call.
C26_ThrowLeavesLoaderUnchanged ==
    (probe.fn = "loadGBFS" /\ probe.called /\ probe.threw) => probe.loader = probe.before

--------------------------------------------------------------------------
(* The rate limiter with the fate of every request recorded *)

\* The page's scripts have run; the history in probe keeps the requests that
\* were pushed while the queue was being processed and how each promise ended.
LimiterLiveInit ==
    /\ allZones = <<>>
    /\ zonesLayer = {}
    /\ clickPoint = NoPoint
    /\ overlappingZones = <<>>
    /\ uniqueZones = <<>>
    /\ popup = NoPopup
    /\ AppStart
    /\ LimiterStart
    /\ probe = [fn |-> "rateLimitedFetch", queued |-> {}, ended |-> EmptyMap]

\* rateLimitedFetch(url), with the history
RateLimitedFetchRecorded ==
    /\ probe.fn = "rateLimitedFetch"
    /\ PushRequest
    /\ probe' = [probe EXCEPT !.queued = IF isProcessingQueue THEN @ \cup {requested + 1}
                                                               ELSE @]

\* the fetch of a processQueue call settles: resolve(response) when ok,
\* reject(error) in the catch otherwise
FetchSettledAs(p, ok) ==
    /\ probe.fn = "rateLimitedFetch"
    /\ SettleFetch(p)
    /\ probe' = [probe EXCEPT !.ended = Put(@, p.request, IF ok THEN "resolved"
                                                                ELSE "rejected")]

\* time passes while the limiter still measures it: a timeout is running or
\* the last fetch began less than minRequestInterval ago
LimiterTickInInterval ==
    /\ now - lastRequestTime < minRequestInterval
    /\ LimiterTick

LimiterLiveNext ==
    \/ RateLimitedFetchRecorded
    \/ \E p \in processing : TimeoutPassed(p)
    \/ \E p \in processing, ok \in BOOLEAN : FetchSettledAs(p, ok)
    \/ LimiterTickInInterval

\* time passes, a timeout that has passed runs its callback, and every fetch
\* settles
LimiterFairness ==
    /\ WF_vars(LimiterTickInInterval)
    /\ WF_vars(\E p \in processing : TimeoutPassed(p))
    /\ WF_vars(\E p \in processing, ok \in BOOLEAN : FetchSettledAs(p, ok))

SpecLimiterLive == LimiterLiveInit /\ [][LimiterLiveNext]_vars /\ LimiterFairness

\* the k-th fetch that is started is the fetch of the k-th rateLimitedFetch call
FetchesInCallOrder ==
    /\ \A p \in processing :
          p.request = IF p.at = "fetch" THEN Len(fetchStarts) ELSE Len(fetchStarts) + 1
    /\ \A k \in 1..Len(requestQueue) :
          requestQueue[k] = Len(fetchStarts) + Cardinality(processing
                                  \ {p \in processing : p.at = "fetch"}) + k

\* C27: the queue of the rate limiter is first in, first out and loses no
\* request: fetches are started in the order of the rateLimitedFetch calls,
\* and, every fetch settling at some time, the promise of every call is
\* resolved or rejected at some time, also for a call made while the queue
\* is being processed and for one queued behind a fetch that fails.
C27_FifoAndEveryRequestSettles ==
    /\ []FetchesInCallOrder
    /\ \A r \in 1..MaxRequests : (requested >= r) ~> (r \in DOMAIN probe.ended)

\* a request pushed while the queue was being processed, behind a fetch that
\* failed, has had its promise resolved
C27_Witness ==
    /\ probe.fn = "rateLimitedFetch"
    /\ \E r \in probe.queued :
          /\ r \in DOMAIN probe.ended
          /\ probe.ended[r] = "resolved"
          /\ r - 1 \in DOMAIN probe.ended
          /\ probe.ended[r - 1] = "rejected"

--------------------------------------------------------------------------
(* Mode-transition refreshes after one load *)

\* the systems loaded while the refreshes are exercised
RefreshSystems == {"S2", "S4"}

\* The user loads one system, once, and zooms before, during and after the
\* load: every refresh that finds stations runs with no load after it.
NextRefresh ==
    \/ \E z \in ZoomLevels : ZoomEnd(z)
    \/ Tick
    \/ \E t \in timers : TimerFire(t)
    \/ RafRun
    \/ DOMAIN loads = {} /\ gbfsData = NoSystem /\ LoadFromUrl
    \/ \E l \in DOMAIN loads, sys \in RefreshSystems : DiscoveryLoaded(l, sys)
    \/ \E l \in DOMAIN loads, ok \in BOOLEAN, fit \in ZoomLevels : FeedSettles(l, ok, fit)

SpecRefresh == Init /\ [][NextRefresh]_vars

\* the elements of the stations layer that belong to the item
ElementsOf(r) == {e \in stationsLayer : e.of = r}

\* C28: through the refreshes after a load every virtual station of
\* stationData has exactly one element on the stations layer, the one its
\* marker field refers to; the layer holds as many elements as stationData has
\* items and no element that belongs to no item.
C28_OneElementPerStation ==
    /\ \A r \in VirtualItems : ElementsOf(r) = {stationItems[r].marker}
    /\ Cardinality(stationsLayer) = Len(stationData)
    /\ \A e \in stationsLayer : e.of \in Range(stationData)

---------------------------------------------------------------------------
(* The revision that skips vehicle markers at low zoom: visualizer.js 1-812 *)

\* performanceSettings.maxVehiclesWithoutClustering
maxVehiclesWithoutClustering == 100

\* performanceSettings.minZoomForVehicles
minZoomForVehicles == 12

\* the zoom the map of this revision is created with
SkippingInitialZoom == 12

\* vehicles a feed has beyond maxVehiclesWithoutClustering
MaxExtraVehicles == 2

\* zoom levels on both sides of minZoomForVehicles
SkippingZoomLevels == {3, minZoomForVehicles - 1, minZoomForVehicles, minZoomForVehicles + 1}

\* no vehicle_status among the results of a load
NoVehicleStatus == [length |-> -1, located |-> -1]

\* a vehicle_status feed: data.data.vehicles.length and how many of the
\* vehicles have lat and lon
VehicleStatusFeeds ==
    {[length |-> n, located |-> m] :
        n \in {0, 1, maxVehiclesWithoutClustering}
              \cup ((maxVehiclesWithoutClustering + 1)
                       ..(maxVehiclesWithoutClustering + MaxExtraVehicles)),
        m \in 0..(maxVehiclesWithoutClustering + MaxExtraVehicles)}

\* the feeds whose located vehicles are all or all but one of the vehicles
SkippingFeeds == {f \in VehicleStatusFeeds : f.located \in {f.length, f.length - 1} \cap Nat}

\* loadVehicles(data) of this revision, on the counts: the layer is cleared and
\* vehicleData emptied, then either the skip (nothing is created) or a marker
\* and a vehicleData entry per located vehicle
loadVehiclesSkipping(state, feed) ==
    LET shouldShowVehicles == state.zoom >= minZoomForVehicles
                              \/ feed.length <= maxVehiclesWithoutClustering
    IN  IF ~shouldShowVehicles
        THEN [state EXCEPT !.markers = 0, !.vehicleData = 0, !.skipped = feed.located]
        ELSE [state EXCEPT !.markers = feed.located, !.vehicleData = feed.located,
                           !.skipped = 0]

\* the state of this revision once its scripts have run
SkippingInit ==
    /\ allZones = <<>>
    /\ zonesLayer = {}
    /\ clickPoint = NoPoint
    /\ overlappingZones = <<>>
    /\ uniqueZones = <<>>
    /\ popup = NoPopup
    /\ AppStart
    /\ LimiterStart
    /\ probe = [fn |-> "skippingRevision", zoom |-> SkippingInitialZoom,
                zoomend |-> FALSE, markers |-> 0, vehicleData |-> 0,
                hasLayer |-> TRUE, toggle |-> "absent", skipped |-> 0]

\* loadGBFSSystem of this revision, as far as the vehicles go: every layer is
\* cleared and re-added, loadVehicles runs when vehicle_status was loaded,
\* the layer controls are rebuilt (the checkbox checked) and fitMapToBounds
\* may change the zoom, which queues a zoomend event
SkippingLoad(feed, fit) ==
    /\ probe.fn = "skippingRevision"
    /\ LET cleared == [probe EXCEPT !.markers = 0, !.hasLayer = TRUE]
           loaded == IF feed = NoVehicleStatus
                     THEN [cleared EXCEPT !.skipped = 0]
                     ELSE loadVehiclesSkipping(cleared, feed)
           rebuilt == [loaded EXCEPT !.toggle = IF feed = NoVehicleStatus
                                                THEN "absent" ELSE "checked"]
       IN  probe' = [rebuilt EXCEPT !.zoom = fit,
                                    !.zoomend = probe.zoomend \/ fit # probe.zoom]
    /\ UNCHANGED <<zoneVars, appVars, limiterVars>>

\* the user zooms the map: Leaflet queues a zoomend event
SkippingZoom(z) ==
    /\ probe.fn = "skippingRevision"
    /\ z # probe.zoom
    /\ probe' = [probe EXCEPT !.zoom = z, !.zoomend = TRUE]
    /\ UNCHANGED <<zoneVars, appVars, limiterVars>>

\* map.on('zoomend', ...) of this revision
SkippingZoomEnd ==
    /\ probe.fn = "skippingRevision"
    /\ probe.zoomend
    /\ probe' =
         IF probe.vehicleData > maxVehiclesWithoutClustering
         THEN IF probe.zoom < minZoomForVehicles
              THEN [probe EXCEPT !.zoomend = FALSE, !.hasLayer = FALSE]
              ELSE [probe EXCEPT !.zoomend = FALSE,
                                 !.hasLayer = probe.hasLayer \/ probe.toggle = "checked"]
         ELSE [probe EXCEPT !.zoomend = FALSE]
    /\ UNCHANGED <<zoneVars, appVars, limiterVars>>

\* vehiclesToggle's change listener
SkippingToggle ==
    /\ probe.fn = "skippingRevision"
    /\ probe.toggle # "absent"
    /\ probe' = IF probe.toggle = "checked"
                THEN [probe EXCEPT !.toggle = "unchecked", !.hasLayer = FALSE]
                ELSE [probe EXCEPT !.toggle = "checked", !.hasLayer = TRUE]
    /\ UNCHANGED <<zoneVars, appVars, limiterVars>>

SkippingNext ==
    \/ \E feed \in SkippingFeeds \cup {NoVehicleStatus}, fit \in SkippingZoomLevels :
          SkippingLoad(feed, fit)
    \/ \E z \in SkippingZoomLevels : SkippingZoom(z)
    \/ SkippingZoomEnd
    \/ SkippingToggle

\* a queued zoomend event is dispatched
SkippingFairness == WF_vars(SkippingZoomEnd)

SpecSkipping == SkippingInit /\ [][SkippingNext]_vars /\ SkippingFairness

\* the last load skipped vehicles, the map is at minZoomForVehicles or above
\* with its zoomend handled, and the vehicles checkbox is checked
SkippedAndZoomedIn ==
    /\ probe.fn = "skippingRevision"
    /\ probe.skipped > 0
    /\ probe.zoom >= minZoomForVehicles
    /\ probe.toggle = "checked"

\* the markers of the skipped vehicles are in a layer that is on the map
SkippedVisible == probe.hasLayer /\ probe.markers >= probe.skipped

\* C29: after a load that skipped the vehicle markers (more than
\* maxVehiclesWithoutClustering vehicles, zoom below minZoomForVehicles),
\* zooming in to minZoomForVehicles or above eventually makes the skipped
\* vehicles visible on the map, unless the user zooms out again or unchecks
\* the vehicles checkbox first
C29_ZoomInShowsSkippedVehicles ==
    SkippedAndZoomedIn ~> (SkippedVisible \/ ~SkippedAndZoomedIn)

---------------------------------------------------------------------------
(* Rules that list a vehicle type more than once *)

\* a rule whose vehicle_type_ids names scooter twice
ScooterTwiceRule == Rule(TRUE, <<"scooter", "scooter">>, FALSE, FALSE, TRUE)

\* a square whose only rule names scooter twice
ZoneR == Feature("R", "MultiPolygon", <<<<SquareRing(0, 4)>>>>, TRUE, <<ScooterTwiceRule>>)

\* the feeds made of ZoneR and of the zones with rules for scooter, bike and all types
RepeatFeeds == {f \in SeqsUpTo({ZoneR, ZoneA, ZoneB, ZoneC}, MaxFeatures) :
                   \E i \in 1..Len(f) : f[i] = ZoneR}

\* a geofencing_zones feed with ZoneR has been loaded
RepeatInit ==
    /\ \E features \in RepeatFeeds :
          /\ allZones = LoadedZones(Parsed(0, features))
          /\ zonesLayer = LoadedPolygons(Parsed(0, features))
    /\ clickPoint = NoPoint
    /\ overlappingZones = <<>>
    /\ uniqueZones = <<>>
    /\ popup = NoPopup
    /\ AppStart
    /\ RestStart

RepeatNext == \E point \in GridPoints : ZoneClick(point)

SpecRepeat == RepeatInit /\ [][RepeatNext]_vars

\* the (zone, rule) pairs of the clicked zones whose rule applies to the key
RulesApplyingTo(key) ==
    UNION {{<<z, r>> : r \in {r \in 1..Len(uniqueZones[z].properties.rules) :
                         key \in Range(VehicleTypesOf(uniqueZones[z].properties.rules[r]))}} :
           z \in {z \in 1..Len(uniqueZones) : uniqueZones[z].properties.has_rules}}

\* C30: in the analysis of the clicked zones each (zone, rule) pair appears at
\* most once in a key's list, and the number of lower precedence rules the
\* popup reports for a key is the number of distinct other rules applying to
\* that key, also when a rule lists the same vehicle type more than once.
C30_EachRuleOncePerKey ==
    (Clicked /\ Len(uniqueZones) # 1) =>
        /\ \A m \in 1..Len(Lists) :
              \A i, j \in 1..Len(Lists[m].rules) :
                  (/\ Lists[m].rules[i].zoneIndex = Lists[m].rules[j].zoneIndex
                   /\ Lists[m].rules[i].ruleIndex = Lists[m].rules[j].ruleIndex) => i = j
        /\ \A m \in 1..Len(popup.sections) :
              popup.sections[m].lower
                  = Cardinality(RulesApplyingTo(popup.sections[m].vehicleType)) - 1
====
